---- MODULE Spec2Model ----
(***************************************************************************)
(* A model of the JK-BMS gateway of batmon-ha: the serial frame assembler  *)
(* (read_trame_55_aa), the switch command builder (get_command_switch),    *)
(* the settings decoder (s_decode_O1), the master polling loop with its    *)
(* command queue and watchdog, and the BLE notification handler.           *)
(*                                                                         *)
(* Byte buffers are sequences of integers 0..255.  Python offsets are      *)
(* 0-based: At(buf, i) is buf[i], Slice(buf, a, b) is buf[a:b].            *)
(***************************************************************************)
EXTENDS Integers, Sequences, FiniteSets, TLC

VARIABLES
    \* ---- switch command builder and settings decoder
    sw_frame,       \* the settings frame behind sampler.setting
    sw_setting,     \* sampler.setting (None until a settings frame is decoded)
    sw_req,         \* the last call of get_command_switch
    sw_cmd,         \* what get_command_switch returned for sw_req
    \* ---- serial frame assembler (JKSerialIO.read_trame_55_aa)
    fr_wire,        \* the chunks of the byte stream that have not arrived yet
    fr_rx,          \* the bytes waiting in the serial port (ser.in_waiting of them)
    fr_pc,          \* idle | head (outer loop) | payload (inner loop)
    fr_cmd_line,    \* self.cmd_line
    fr_resp,        \* response_line (None until the first payload bytes are read)
    fr_nodata,      \* no_data_counter
    fr_expired,     \* time.time_ns() - t_now has gone beyond ns_timeout
    fr_shutdown,    \* self.shutdown
    fr_ret,         \* what the last call returned (or raised)
    fr_data,        \* the buffer the last call assembled and validated
    fr_delivered,   \* the callback invocations so far
    fr_calls,       \* the number of calls of read_trame_55_aa so far
    fr_stream,      \* the whole byte stream the serial port is fed with
    fr_log,         \* for each call that ended: its result, the size of its buffer
    \* ---- BLE notification handler (JKBt._notification_handler)
    ble_wire,       \* the notifications that have not been received yet
    ble_buffer,     \* self._buffer
    ble_decoded,    \* the buffers handed to _decode_msg so far
    ble_last,       \* the last call of the handler: how it ended, whether the
                    \* buffer had reached MIN_RESPONSE_SIZE in it, its chunk,
                    \* the buffer before the call and after self._buffer += data
    \* ---- master polling loop (read_serialport_data_mode_master_all_slave)
    ms_pc,          \* about | settings | status | queue | qwrite | requery | done
    ms_phase,       \* write (the command is not sent yet) | wait (for the response)
    ms_i,           \* the address polled in send_cmd_and_read_all_slave
    ms_out,         \* the exchange of the running send_cmd_one_slave
    ms_counter,     \* counter, the error counter of the loop
    ms_ps,          \* period_status.counter
    ms_behind,      \* time.time() - period_status._last_t at the loop head, seconds
    ms_queue,       \* self.cmd, the queue of (cmd, address)
    ms_shutdown,    \* self.shutdown
    ms_result,      \* running, or how the loop ended
    ms_wd_calls,    \* the calls callback(self.cmd_line) of the watchdog
    ms_outstanding, \* the commands written whose exchange has not ended
    ms_last,        \* the last command written to the transport
    ms_prev,        \* the command written before it
    ms_ev,          \* the last change of the error counter, or exchange ended
    ms_cycle,       \* the number of the running cycle, from 0
    ms_sent,        \* the addresses each periodic command was sent to in the cycle
    ms_valid,       \* a long frame was validated in the running cycle
    ms_ever,        \* a long frame was validated since the loop began
    ms_fails,       \* the cycles ended in a row without a validated long frame
    \* the command wrapper (JKSerialIO.generate_cmd)
    gc_command,     \* the command handed to generate_cmd
    gc_address,     \* the bus address handed to generate_cmd
    gc_msg,         \* what generate_cmd returned, <<>> before the call
    \* the command queue and the loop that drains it (send_cmd_in_queue, send_command_from_queue)
    qu_queue,       \* self.cmd, the (cmd, address) pairs waiting
    qu_enq,         \* the pairs handed to send_cmd_in_queue, in the order of the calls
    qu_sent,        \* the pairs written by send_command_from_queue, in the order of the writes
    qu_pc,          \* where the master loop is: cycle, drain, exchange or done
    qu_shutdown,    \* self.shutdown
    \* mon_callback and the samplers it feeds (main.py)
    mc_data,        \* the buffer of the last mon_callback call
    mc_kind,        \* the decoder the last call ran, "none" if it ran none
    mc_raised,      \* the exception the last call raised, "" if it returned
    mc_samplers,    \* bms_list_by_ad: address -> the sampler state
    mc_before,      \* bms_list_by_ad when the last call started
    mc_calls,       \* number of mon_callback calls made
    \* the sample decoder applied to a frame (jkserialio.py)
    sd_buf,         \* the frame handed to s_decode_sample
    sd_new,         \* <<the sample decoded with is_new_11fw_32s true>>, <<>> before
    sd_old,         \* <<the sample decoded with is_new_11fw_32s false>>, <<>> before
    \* a PeriodicBoolSignal and the clock (sampling.py, test_period.py)
    ps_period,      \* PeriodicBoolSignal.period, in seconds
    ps_last_t,      \* PeriodicBoolSignal._last_t
    ps_state,       \* PeriodicBoolSignal.state
    ps_counter,     \* PeriodicBoolSignal.counter
    ps_now,         \* time.time(), in whole seconds
    ps_before,      \* the last call of sleep or set_time, the counter and _last_t it found and the time of the call
    ps_calls,       \* calls of sleep and set_time made
    ps_interval,    \* the seconds the test loop sleeps between two calls
    ps_pc,          \* position of the test loop
    ps_logged,      \* times the test loop found the signal true
    \* the BLE checksum applied to two byte strings (jikong.py)
    cc_a,           \* the first byte string
    cc_b,           \* the second byte string
    cc_crc,         \* <<calc_crc(a), calc_crc(b), calc_crc(a + b)>>, <<>> before
    \* set_switch requests and settings stores, in order (jkserialio.py, main.py)
    rq_requests,    \* the set_switch calls made: switch, state, the stores before, queued or not
    rq_stores,      \* settings records stored so far
    \* send_command_from_queue taking one write command (read_cmd_answer)
    ca_pc,          \* where send_command_from_queue is: idle, head (the loop head of read_cmd_answer), answered, done
    ca_cmd,         \* the frame send_cmd_one_slave wrote for the write command
    ca_rx,          \* the bytes waiting in the serial port
    ca_wire,        \* the chunks of bytes still to arrive
    ca_expired,     \* whether the timeout of read_cmd_answer has elapsed
    ca_shutdown,    \* self.shutdown
    ca_ret,         \* what read_cmd_answer returned
    ca_read,        \* the bytes read_cmd_answer read
    ca_writes,      \* the frames written to the serial port, in order
    \* read_serialport_data (single-device mode)
    sg_pc,          \* where read_serialport_data is: idle, loop (its loop condition), read (awaiting read_trame_55_aa), done
    sg_counter,     \* counter
    sg_result,      \* how the function ended: watchdog, shutdown, exception
    sg_shutdown,    \* self.shutdown
    sg_writes,      \* the number of commands written to the serial port
    \* main(): the MQTT watchdog, the serial loop and the exit
    ex_shutdown,    \* the global shutdown of main.py
    ex_io_shutdown, \* jk_serial_io.shutdown
    ex_bg,          \* background_loop: running or ended
    ex_serial,      \* read_serial_data: running or returned
    ex_main,        \* main(): waiting for read_serial_data, or exited after store_states
    ex_counter,     \* the counter of the serial loop
    ex_tripped,     \* whether bg_checks found the publish timeout exceeded
    \* JKBt: the response table, set_switch and fetch
    jb_pc,          \* where the task is: new, idle, switch_sleep, fetch_wait, fetch_check, fetch_query, fetch_decode
    jb_table,       \* the response types held by _resp_table
    jb_writes,      \* the commands written to the BMS, in order
    jb_fresh,       \* set_switch has completed and fetch was not called since
    jb_notified,    \* a settings frame was notified since set_switch last completed
    jb_fetch,       \* the last call of fetch
    jb_calls        \* the number of calls of set_switch and fetch

swVars == <<sw_frame, sw_setting, sw_req, sw_cmd>>

frVars == <<fr_wire, fr_rx, fr_pc, fr_cmd_line, fr_resp, fr_nodata, fr_expired,
            fr_shutdown, fr_ret, fr_data, fr_delivered, fr_calls, fr_stream,
            fr_log>>

bleVars == <<ble_wire, ble_buffer, ble_decoded, ble_last>>

msVars == <<ms_pc, ms_phase, ms_i, ms_out, ms_counter, ms_ps, ms_behind, ms_queue,
            ms_shutdown, ms_result, ms_wd_calls, ms_outstanding, ms_last, ms_prev,
            ms_ev, ms_cycle, ms_sent, ms_valid, ms_ever, ms_fails>>

gcVars == <<gc_command, gc_address, gc_msg>>

quVars == <<qu_queue, qu_enq, qu_sent, qu_pc, qu_shutdown>>

mcVars == <<mc_data, mc_kind, mc_raised, mc_samplers, mc_before, mc_calls>>

sdVars == <<sd_buf, sd_new, sd_old>>

psVars == <<ps_period, ps_last_t, ps_state, ps_counter, ps_now, ps_before, ps_calls, ps_interval, ps_pc, ps_logged>>

ccVars == <<cc_a, cc_b, cc_crc>>

rqVars == <<rq_requests, rq_stores>>

caVars == <<ca_pc, ca_cmd, ca_rx, ca_wire, ca_expired, ca_shutdown, ca_ret, ca_read, ca_writes>>

sgVars == <<sg_pc, sg_counter, sg_result, sg_shutdown, sg_writes>>

exVars == <<ex_shutdown, ex_io_shutdown, ex_bg, ex_serial, ex_main, ex_counter, ex_tripped>>

jbVars == <<jb_pc, jb_table, jb_writes, jb_fresh, jb_notified, jb_fetch, jb_calls>>

vars == <<swVars, frVars, bleVars, msVars, gcVars, quVars, mcVars, sdVars, psVars, ccVars, rqVars, caVars, sgVars, exVars, jbVars>>

\* what the actions of one component leave alone
notSw == <<frVars, bleVars, msVars, gcVars, quVars, mcVars, sdVars, psVars, ccVars, rqVars, caVars, sgVars, exVars, jbVars>>
notFr == <<swVars, bleVars, msVars, gcVars, quVars, mcVars, sdVars, psVars, ccVars, rqVars, caVars, sgVars, exVars, jbVars>>
notBle == <<swVars, frVars, msVars, gcVars, quVars, mcVars, sdVars, psVars, ccVars, rqVars, caVars, sgVars, exVars, jbVars>>
notMs == <<swVars, frVars, bleVars, gcVars, quVars, mcVars, sdVars, psVars, ccVars, rqVars, caVars, sgVars, exVars, jbVars>>
notGc == <<swVars, frVars, bleVars, msVars, quVars, mcVars, sdVars, psVars, ccVars, rqVars, caVars, sgVars, exVars, jbVars>>
notQu == <<swVars, frVars, bleVars, msVars, gcVars, mcVars, sdVars, psVars, ccVars, rqVars, caVars, sgVars, exVars, jbVars>>
notMc == <<swVars, frVars, bleVars, msVars, gcVars, quVars, sdVars, psVars, ccVars, rqVars, caVars, sgVars, exVars, jbVars>>
notSd == <<swVars, frVars, bleVars, msVars, gcVars, quVars, mcVars, psVars, ccVars, rqVars, caVars, sgVars, exVars, jbVars>>
notPs == <<swVars, frVars, bleVars, msVars, gcVars, quVars, mcVars, sdVars, ccVars, rqVars, caVars, sgVars, exVars, jbVars>>
notCc == <<swVars, frVars, bleVars, msVars, gcVars, quVars, mcVars, sdVars, psVars, rqVars, caVars, sgVars, exVars, jbVars>>
notRq == <<swVars, frVars, bleVars, msVars, gcVars, quVars, mcVars, sdVars, psVars, ccVars, caVars, sgVars, exVars, jbVars>>

\* the components that neither requests, stores nor the queue touch
notSwQuRq == <<frVars, bleVars, msVars, gcVars, mcVars, sdVars, psVars, ccVars, caVars, sgVars, exVars, jbVars>>
notCa == <<swVars, frVars, bleVars, msVars, gcVars, quVars, mcVars, sdVars, psVars, ccVars, rqVars, sgVars, exVars, jbVars>>
notSg == <<swVars, frVars, bleVars, msVars, gcVars, quVars, mcVars, sdVars, psVars, ccVars, rqVars, caVars, exVars, jbVars>>
notEx == <<swVars, frVars, bleVars, msVars, gcVars, quVars, mcVars, sdVars, psVars, ccVars, rqVars, caVars, sgVars, jbVars>>
notJb == <<swVars, frVars, bleVars, msVars, gcVars, quVars, mcVars, sdVars, psVars, ccVars, rqVars, caVars, sgVars, exVars>>

-----------------------------------------------------------------------------
\* Bounds of the model

\* the calls of read_trame_55_aa made on one stream
MaxCalls == 3

\* the cycles of the master loop in SpecMaster
MaxCycles == 3

\* the commands waiting in the command queue
MaxQueue == 1

\* the seconds period_status may be behind the clock
MaxBehind == 24

\* the first cycles of SpecWatchdog, in which long frames may be validated
MaxOkCycles == 2

-----------------------------------------------------------------------------
\* Bytes, slices and bit operations

Min(a, b) == IF a < b THEN a ELSE b
Max(a, b) == IF a > b THEN a ELSE b

\* buf[i] for a 0-based offset i within the buffer
At(buf, i) == buf[i + 1]

\* buf[a:b] for 0 <= a, 0 <= b: Python clamps the slice to the buffer
Slice(buf, a, b) == SubSeq(buf, a + 1, Min(b, Len(buf)))

\* buf[:-n]: all but the last n bytes (empty when the buffer is shorter)
DropLast(buf, n) == SubSeq(buf, 1, Len(buf) - n)

\* buf[-n:]: the last n bytes (the whole buffer when it is shorter)
TakeLast(buf, n) == SubSeq(buf, Max(1, Len(buf) - n + 1), Len(buf))

Zeros(n) == [i \in 1..n |-> 0]

\* buf with the byte at 0-based offset i replaced by b
SetAt(buf, i, b) == [buf EXCEPT ![i + 1] = b]

RECURSIVE BitAnd(_, _)
BitAnd(a, b) ==
    IF a = 0 \/ b = 0 THEN 0
    ELSE (a % 2) * (b % 2) + 2 * BitAnd(a \div 2, b \div 2)

RECURSIVE BitOr(_, _)
BitOr(a, b) ==
    IF a = 0 THEN b
    ELSE IF b = 0 THEN a
    ELSE Max(a % 2, b % 2) + 2 * BitOr(a \div 2, b \div 2)

RECURSIVE BitXor(_, _)
BitXor(a, b) ==
    IF a = 0 THEN b
    ELSE IF b = 0 THEN a
    ELSE ((a + b) % 2) + 2 * BitXor(a \div 2, b \div 2)

\* bit k of x
Bit(x, k) == (x \div (2 ^ k)) % 2

\* ~f on a 16-bit register
Not16(f) == 65535 - f

-----------------------------------------------------------------------------
\* Checksums

\* sum(buf[lo..hi]), split in halves to keep the evaluation shallow
RECURSIVE SumRange(_, _, _)
SumRange(buf, lo, hi) ==
    IF lo > hi THEN 0
    ELSE IF lo = hi THEN buf[lo]
    ELSE LET mid == (lo + hi) \div 2
         IN  SumRange(buf, lo, mid) + SumRange(buf, mid + 1, hi)

calc_crc_unmasked(buf) == SumRange(buf, 1, Len(buf))

\* sum(message_bytes) & 0xFF
calc_crc(buf) == SumRange(buf, 1, Len(buf)) % 256

\* one bit step of the reflected CRC-16 with polynomial 0x8005 (0xA001 reflected)
CrcShift(crc) ==
    IF crc % 2 = 1 THEN BitXor(crc \div 2, 40961) ELSE crc \div 2

RECURSIVE CrcBits(_, _)
CrcBits(crc, n) ==
    IF n = 0 THEN crc
    ELSE LET c == CrcShift(crc)
         IN  IF c >= 0 THEN CrcBits(c, n - 1) ELSE 0

RECURSIVE CrcFrom(_, _, _)
CrcFrom(buf, i, crc) ==
    IF i > Len(buf) THEN crc
    ELSE LET c == CrcBits(BitXor(crc, buf[i]), 8)
         IN  IF c >= 0 THEN CrcFrom(buf, i + 1, c) ELSE 0

\* crcmod.mkCrcFun(0x18005, rev=True, initCrc=0xFFFF, xorOut=0x0000)
crc16_modbus(buf) == CrcFrom(buf, 1, 65535)

\* the CRC as the two bytes appended to a message: low byte first
crc16_modbus2(buf) ==
    LET i == crc16_modbus(buf) IN <<i % 256, (i \div 256) % 256>>

-----------------------------------------------------------------------------
\* Switch command builder (JKSerialIO.get_command_switch)

float_charge_flag == 512
heating_flag == 1
display_flag == 16

NoSetting == [present |-> FALSE, status_282 |-> 0, address |-> 0,
              charge |-> FALSE, discharge |-> FALSE, balance |-> FALSE,
              float_charge |-> FALSE,
              switches |-> [charge |-> FALSE, discharge |-> FALSE,
                            balance |-> FALSE, float_charge |-> FALSE]]

\* the results of get_command_switch: a command, None, or the exception raised
\* by reading sampler.setting.status_282 while sampler.setting is None
Bytes(b) == [tag |-> "bytes", val |-> b]
NoneResult == [tag |-> "None", val |-> <<>>]
AttributeError == [tag |-> "AttributeError", val |-> <<>>]

\* cmd_10 with the state byte inverted
cmd_10_inverted(c, state) ==
    <<16, 16, c, 0, 2, 4, 0, 0, 0, IF state THEN 0 ELSE 1>>

cmd_10(c, state) ==
    <<16, 16, c, 0, 2, 4, 0, 0, 0, IF state THEN 1 ELSE 0>>

\* merge_11 toggling the flag instead of setting it
merge_11_toggle(f, state, status_282) ==
    IF state THEN BitXor(status_282, f) ELSE BitAnd(status_282, f)

\* merge_11 toggling the flag when disabling
merge_11_flip(f, state, status_282) ==
    IF state THEN BitOr(status_282, f) ELSE BitXor(status_282, f)

\* the register value cmd_11 writes for flag f
merge_11(f, state, status_282) ==
    IF state THEN BitOr(status_282, f) ELSE BitAnd(status_282, f)

\* cmd_11 merging into a register value of 0 when no settings are stored
cmd_11_default(f, state, setting) ==
    LET v == merge_11(f, state, setting.status_282)
    IN  Bytes(<<16, 17, 20, 0, 2, 2, BitAnd(v \div 256, 255), BitAnd(v, 255)>>)

cmd_11(f, state, setting) ==
    IF ~setting.present THEN AttributeError
    ELSE LET v == merge_11(f, state, setting.status_282)
         IN  Bytes(<<16, 17, 20, 0, 2, 2, BitAnd(v \div 256, 255), BitAnd(v, 255)>>)

get_command_switch(switch, state, setting) ==
    CASE switch = "charge"       -> Bytes(cmd_10(112, state))
      [] switch = "discharge"    -> Bytes(cmd_10(116, state))
      [] switch = "balance"      -> Bytes(cmd_10(120, state))
      [] switch = "float_charge" -> cmd_11(float_charge_flag, state, setting)
      [] switch = "heating"      -> cmd_11(heating_flag, state, setting)
      [] switch = "display"      -> cmd_11(display_flag, state, setting)
      [] OTHER                   -> NoneResult

\* generate_cmd with the CRC computed over the command alone
generate_cmd_bare(command, address) ==
    <<address>> \o command \o crc16_modbus2(command)

\* generate_cmd: [address] + command + crc16_modbus2([address] + command)
generate_cmd(command, address) ==
    LET modbus_msg == <<address>> \o command
    IN  modbus_msg \o crc16_modbus2(modbus_msg)

\* the commands of the polling loop (JKSerialIO.__init__)
command_status == <<16, 22, 32, 0, 1, 2, 0, 0>>
command_settings == <<16, 22, 30, 0, 1, 2, 0, 0>>
command_about == <<16, 22, 28, 0, 1, 2, 0, 0>>

-----------------------------------------------------------------------------
\* Settings decoder (s_decode_O1)

\* int.from_bytes(buf[i:i+2], 'little', signed=False)
u16(buf, i) == At(buf, i) + 256 * At(buf, i + 1)

\* int.from_bytes(buf[i:i+4], 'little', signed=True): the top byte carries the
\* sign, so the value stays within 32 bits
i32(buf, i) ==
    LET low == At(buf, i) + 256 * At(buf, i + 1) + 65536 * At(buf, i + 2)
        top == At(buf, i + 3)
    IN  low + 16777216 * (IF top >= 128 THEN top - 256 ELSE top)

s_decode_O1_low_byte(status_data) ==
    [present      |-> TRUE,
     status_282   |-> u16(status_data, 282),
     address      |-> At(status_data, 270),
     charge       |-> At(status_data, 118) # 0,
     discharge    |-> At(status_data, 122) # 0,
     balance      |-> At(status_data, 126) # 0,
     float_charge |-> BitAnd(At(status_data, 283), 2) # 0,
     switches     |-> [charge       |-> At(status_data, 118) # 0,
                       discharge    |-> At(status_data, 122) # 0,
                       balance      |-> At(status_data, 126) # 0,
                       float_charge |->
                           BitAnd(u16(status_data, 282), float_charge_flag) # 0]]

\* s_decode_O1: the enable flags are bool() of the 32-bit values at 118, 122
\* and 126, the entries of switches bool() of the single bytes at these
\* offsets
s_decode_O1(status_data) ==
    [present      |-> TRUE,
     status_282   |-> u16(status_data, 282),
     address      |-> At(status_data, 270),
     charge       |-> i32(status_data, 118) # 0,
     discharge    |-> i32(status_data, 122) # 0,
     balance      |-> i32(status_data, 126) # 0,
     float_charge |-> BitAnd(At(status_data, 283), 2) # 0,
     switches     |-> [charge       |-> At(status_data, 118) # 0,
                       discharge    |-> At(status_data, 122) # 0,
                       balance      |-> At(status_data, 126) # 0,
                       float_charge |->
                           BitAnd(u16(status_data, 282), float_charge_flag) # 0]]

-----------------------------------------------------------------------------
\* Sample decoder (s_decode_sample, BmsSample.__init__)

\* int.from_bytes(buf[i:i+2], 'little', signed=True)
i16(buf, i) ==
    LET top == At(buf, i + 1)
    IN  At(buf, i) + 256 * (IF top >= 128 THEN top - 256 ELSE top)

\* int.from_bytes(buf[i:i+1], 'little', signed=True); an empty slice gives 0
s8(buf, i) ==
    IF i >= Len(buf) THEN 0
    ELSE IF At(buf, i) >= 128 THEN At(buf, i) - 256 ELSE At(buf, i)

\* int.from_bytes(buf[i:i+4], 'little', signed=False), for values below 2^31
u32(buf, i) ==
    At(buf, i) + 256 * At(buf, i + 1) + 65536 * At(buf, i + 2)
        + 16777216 * At(buf, i + 3)

\* temp: a reading in tenths of a degree, NaN for -2000; float('nan') is kept
\* as a value that no 16-bit reading takes
NaN == 32768
temp(x) == IF x = -2000 THEN NaN ELSE x

\* the offsets s_decode_sample reads the temperatures from
temperature_offsets(is_new_11fw_32s) ==
    LET offset == IF is_new_11fw_32s THEN 32 ELSE 0
    IN  <<130 + offset, 132 + offset>>
            \o (IF is_new_11fw_32s
                THEN <<222 + offset, 224 + offset, 226 + offset>> ELSE <<>>)

\* the offset s_decode_sample reads the MOSFET temperature from
mos_temperature_offset(is_new_11fw_32s) ==
    LET offset == IF is_new_11fw_32s THEN 32 ELSE 0
    IN  (IF is_new_11fw_32s THEN 112 ELSE 134) + offset

\* round(charge / capacity * 100, 2) of two raw values (mAh), in hundredths
\* of a percent
soc_of(charge, capacity) ==
    LET whole == charge \div capacity
        r0    == charge % capacity
        q1    == (r0 * 100) \div capacity
        r1    == (r0 * 100) % capacity
        q2    == (r1 * 100) \div capacity
        r2    == (r1 * 100) % capacity
    IN  whole * 10000 + q1 * 100 + q2 + (IF 2 * r2 >= capacity THEN 1 ELSE 0)

\* BmsSample.__init__: the soc kept, in hundredths of a percent; the byte of
\* the frame is an int, so soc is inferred whenever capacity and charge are
\* positive
sample_soc(soc, charge, capacity) ==
    IF capacity > 0 /\ charge > 0 THEN soc_of(charge, capacity) ELSE soc * 100

\* Protection levels (protection.py)
OK == 0
WARNING == 1
ALARM == 2

\* BmsSample.to_protection_bits(byte_data): the Protection fields it sets
to_protection_bits(byte_data) ==
    [low_soc                   |-> BitAnd(byte_data, 4096) * 2,
     high_internal_temperature |-> BitAnd(byte_data, 2) * 2,
     high_voltage              |-> BitAnd(byte_data, 32) * 2,
     low_voltage               |-> BitAnd(byte_data, 2048) * 2,
     high_charge_current       |-> BitAnd(byte_data, 64) * 2,
     high_discharge_current    |-> BitAnd(byte_data, 8192) * 2,
     cell_imbalance            |-> 0,
     high_cell_voltage         |-> BitAnd(byte_data, 16) * 2,
     low_cell_voltage          |-> BitAnd(byte_data, 4096) * 2,
     high_charge_temperature   |-> BitAnd(byte_data, 256) * 2,
     low_charge_temperature    |-> BitAnd(byte_data, 512) * 2,
     high_temperature          |-> BitAnd(byte_data, 32768) * 2,
     low_temperature           |-> 0]

\* Python floats (IEEE-754 binary64), kept exactly: a sign and a magnitude in
\* fixed point, a sequence of FloatLimbs digits of LimbBits bits each, the
\* first digit before the point and the others after it; nan marks
\* float('nan')
FloatLimbs == 8
LimbBits == 16
float_mant_dig == 53

limb_base == 2 ^ LimbBits
FloatBits == FloatLimbs * LimbBits

int_limbs(n) == [k \in 1..FloatLimbs |-> IF k = 1 THEN n ELSE 0]

\* bit i of a magnitude, the most significant first
limb_bit(x, i) ==
    (x[((i - 1) \div LimbBits) + 1]
        \div (2 ^ (LimbBits - 1 - ((i - 1) % LimbBits)))) % 2

\* x / d for a small positive integer d by long division, with whether a
\* remainder is left
RECURSIVE div_limbs(_, _, _, _, _)
div_limbs(x, d, k, r, acc) ==
    IF k > FloatLimbs THEN [limbs |-> acc, inexact |-> r # 0]
    ELSE LET cur == r * limb_base + x[k]
         IN  div_limbs(x, d, k + 1, cur % d, Append(acc, cur \div d))

RECURSIVE add_limbs(_, _, _, _, _)
add_limbs(a, b, k, carry, acc) ==
    IF k = 0 THEN acc
    ELSE LET sum == a[k] + b[k] + carry
         IN  add_limbs(a, b, k - 1, sum \div limb_base,
                       <<sum % limb_base>> \o acc)

\* a - b for a >= b
RECURSIVE sub_limbs(_, _, _, _, _)
sub_limbs(a, b, k, borrow, acc) ==
    IF k = 0 THEN acc
    ELSE LET diff == a[k] - b[k] - borrow
         IN  sub_limbs(a, b, k - 1, IF diff < 0 THEN 1 ELSE 0,
                       <<IF diff < 0 THEN diff + limb_base ELSE diff>> \o acc)

less_limbs(a, b) ==
    LET differ == {k \in 1..FloatLimbs : a[k] # b[k]}
    IN  /\ differ # {}
        /\ LET first == CHOOSE k \in differ : \A j \in differ : k <= j
           IN  a[first] < b[first]

\* the result of an operation rounded to the nearest float, ties to even
round_nearest(x) ==
    LET ones == {i \in 1..FloatBits : limb_bit(x.limbs, i) = 1}
    IN  IF ones = {} THEN x.limbs
        ELSE LET first == CHOOSE i \in ones : \A j \in ones : i <= j
                 last  == first + float_mant_dig - 1
                 at    == ((last - 1) \div LimbBits) + 1
                 unit  == 2 ^ (LimbBits - 1 - ((last - 1) % LimbBits))
                 kept  == [k \in 1..FloatLimbs |->
                              IF k < at THEN x.limbs[k]
                              ELSE IF k = at
                              THEN x.limbs[k] - (x.limbs[k] % unit)
                              ELSE 0]
                 rest  == x.inexact
                          \/ \E i \in (last + 2)..FloatBits :
                                limb_bit(x.limbs, i) = 1
                 up    == /\ last < FloatBits
                          /\ limb_bit(x.limbs, last + 1) = 1
                          /\ (rest \/ limb_bit(x.limbs, last) = 1)
                 ulp   == [k \in 1..FloatLimbs |-> IF k = at THEN unit ELSE 0]
             IN  IF last >= FloatBits THEN x.limbs
                 ELSE IF up THEN add_limbs(kept, ulp, FloatLimbs, 0, <<>>)
                 ELSE kept

float_nan == [nan |-> TRUE, neg |-> FALSE, limbs |-> int_limbs(0)]

is_none_or_nan(val) == val.nan

\* x / d for integers x and d > 0
int_truediv(x, d) ==
    [nan   |-> FALSE,
     neg   |-> x < 0,
     limbs |-> round_nearest(div_limbs(int_limbs(IF x < 0 THEN -x ELSE x), d,
                                       1, 0, <<>>))]

\* a / d for a float a and an integer d > 0
float_truediv(a, d) ==
    LET limbs == round_nearest(div_limbs(a.limbs, d, 1, 0, <<>>))
    IN  [nan |-> FALSE, neg |-> a.neg /\ limbs # int_limbs(0), limbs |-> limbs]

\* a + b
float_add(a, b) ==
    LET exact == IF a.neg = b.neg
                 THEN [neg |-> a.neg, limbs |-> add_limbs(a.limbs, b.limbs, FloatLimbs, 0, <<>>)]
                 ELSE IF less_limbs(a.limbs, b.limbs)
                 THEN [neg |-> b.neg, limbs |-> sub_limbs(b.limbs, a.limbs, FloatLimbs, 0, <<>>)]
                 ELSE [neg |-> a.neg /\ a.limbs # b.limbs,
                       limbs |-> sub_limbs(a.limbs, b.limbs, FloatLimbs, 0, <<>>)]
    IN  [nan   |-> FALSE,
         neg   |-> exact.neg,
         limbs |-> round_nearest([limbs |-> exact.limbs, inexact |-> FALSE])]

\* a < b
float_lt(a, b) ==
    IF a.neg /\ b.neg THEN less_limbs(b.limbs, a.limbs)
    ELSE IF a.neg THEN a.limbs # int_limbs(0) \/ b.limbs # int_limbs(0)
    ELSE IF b.neg THEN FALSE
    ELSE less_limbs(a.limbs, b.limbs)

float_le(a, b) ==
    \/ float_lt(a, b)
    \/ /\ a.limbs = b.limbs
       /\ (a.neg = b.neg \/ a.limbs = int_limbs(0))

\* temp = lambda x: float('nan') if x == -2000 else (x / 10)
float_temp(x) == IF x = -2000 THEN float_nan ELSE int_truediv(x, 10)

\* the loop over the temperature sensors
RECURSIVE temperature_loop(_, _, _)
temperature_loop(temperatures, i, st) ==
    IF i > Len(temperatures) THEN st
    ELSE IF is_none_or_nan(temperatures[i])
    THEN temperature_loop(temperatures, i + 1, st)
    ELSE temperature_loop(temperatures, i + 1,
            [temp_min   |-> IF float_lt(temperatures[i], st.temp_min)
                            THEN temperatures[i] ELSE st.temp_min,
             temp_max   |-> IF float_lt(st.temp_max, temperatures[i])
                            THEN temperatures[i] ELSE st.temp_max,
             temp_somme |-> float_add(st.temp_somme, temperatures[i]),
             temp_count |-> st.temp_count + 1])

\* temp_min, temp_max and temp_moyenne of s_decode_sample
temperature_statistics(is_new_11fw_32s, buf) ==
    LET offs == temperature_offsets(is_new_11fw_32s)
        mos  == int_truediv(i16(buf, mos_temperature_offset(is_new_11fw_32s)), 10)
        st   == temperature_loop([k \in 1..Len(offs) |-> float_temp(i16(buf, offs[k]))], 1,
                    [temp_min |-> mos, temp_max |-> mos, temp_somme |-> mos,
                     temp_count |-> 1])
    IN  [temp_min     |-> st.temp_min,
         temp_max     |-> st.temp_max,
         temp_count   |-> st.temp_count,
         temp_moyenne |-> float_truediv(st.temp_somme, st.temp_count)]

s_decode_sample_same_shift(is_new_11fw_32s, buf) ==
    LET offset == IF is_new_11fw_32s THEN 32 ELSE 0
        offs   == temperature_offsets(is_new_11fw_32s)
        stats  == temperature_statistics(is_new_11fw_32s, buf)
    IN  [address         |-> s8(buf, 300),
         temperatures    |-> [k \in 1..Len(offs) |-> temp(i16(buf, offs[k]))],
         mos_temperature |-> i16(buf, 134 + offset),
         temp_min        |-> stats.temp_min,
         temp_max        |-> stats.temp_max,
         temp_moyenne    |-> stats.temp_moyenne,
         alarm           |-> u32(buf, 166),
         protection      |-> to_protection_bits(u32(buf, 166)),
         charge          |-> u32(buf, 142 + offset),
         capacity        |-> u32(buf, 146 + offset),
         derived         |-> u32(buf, 146 + offset) > 0 /\ u32(buf, 142 + offset) > 0,
         soc             |-> sample_soc(At(buf, 141 + offset), u32(buf, 142 + offset),
                                        u32(buf, 146 + offset))]

\* s_decode_sample(is_new_11fw_32s, buf): temperatures in tenths of a degree,
\* their minimum, maximum and mean as the floats of the code, charge and
\* capacity in mAh, soc in hundredths of a percent
s_decode_sample(is_new_11fw_32s, buf) ==
    LET offset == IF is_new_11fw_32s THEN 32 ELSE 0
        offs   == temperature_offsets(is_new_11fw_32s)
        stats  == temperature_statistics(is_new_11fw_32s, buf)
    IN  [address         |-> s8(buf, 300),
         temperatures    |-> [k \in 1..Len(offs) |-> temp(i16(buf, offs[k]))],
         mos_temperature |-> i16(buf, mos_temperature_offset(is_new_11fw_32s)),
         temp_min        |-> stats.temp_min,
         temp_max        |-> stats.temp_max,
         temp_moyenne    |-> stats.temp_moyenne,
         alarm           |-> u32(buf, 166),
         protection      |-> to_protection_bits(u32(buf, 166)),
         charge          |-> u32(buf, 142 + offset),
         capacity        |-> u32(buf, 146 + offset),
         derived         |-> u32(buf, 146 + offset) > 0 /\ u32(buf, 142 + offset) > 0,
         soc             |-> sample_soc(At(buf, 141 + offset), u32(buf, 142 + offset),
                                        u32(buf, 146 + offset))]

-----------------------------------------------------------------------------
\* Device-info decoder (decode_info, util.read_str)

\* bytes.decode('utf-8') accepts the byte string
RECURSIVE utf8_valid(_)
utf8_valid(b) ==
    LET cont(k) == k <= Len(b) /\ b[k] >= 128 /\ b[k] <= 191
        rest(n) == utf8_valid(SubSeq(b, n + 1, Len(b)))
    IN  IF b = <<>> THEN TRUE
        ELSE IF b[1] < 128 THEN rest(1)
        ELSE IF b[1] >= 194 /\ b[1] <= 223 THEN cont(2) /\ rest(2)
        ELSE IF b[1] >= 224 /\ b[1] <= 239
             THEN /\ cont(2) /\ cont(3)
                  /\ (b[1] = 224 => b[2] >= 160)
                  /\ (b[1] = 237 => b[2] <= 159)
                  /\ rest(3)
        ELSE IF b[1] >= 240 /\ b[1] <= 244
             THEN /\ cont(2) /\ cont(3) /\ cont(4)
                  /\ (b[1] = 240 => b[2] >= 144)
                  /\ (b[1] = 244 => b[2] <= 143)
                  /\ rest(4)
        ELSE FALSE

\* read_str(buf, offset): buf[offset:buf.index(0, offset)].decode('utf-8');
\* index raises ValueError when no zero byte follows, decode raises
\* UnicodeDecodeError
read_str(buf, offset) ==
    LET zeros == {i \in offset..(Len(buf) - 1) : At(buf, i) = 0}
    IN  IF zeros = {} THEN [raised |-> "ValueError", str |-> <<>>]
        ELSE LET end == CHOOSE i \in zeros : \A j \in zeros : i <= j
                 str == Slice(buf, offset, end)
             IN  IF utf8_valid(str) THEN [raised |-> "", str |-> str]
                 ELSE [raised |-> "UnicodeDecodeError", str |-> <<>>]

\* decode_info(buf): the strings are read in the order psk, model,
\* hw_version, sw_version, name, sn; the first failing read raises
decode_info(buf) ==
    LET reads  == <<read_str(buf, 97), read_str(buf, 6), read_str(buf, 22),
                    read_str(buf, 30), read_str(buf, 46), read_str(buf, 86)>>
        failed == {k \in 1..6 : reads[k].raised # ""}
    IN  IF failed # {}
        THEN [raised |-> reads[CHOOSE k \in failed : \A j \in failed : k <= j].raised,
              address |-> 0, model |-> <<>>]
        ELSE [raised |-> "", address |-> s8(buf, 300), model |-> reads[2].str]

-----------------------------------------------------------------------------
\* Frames as the BMS sends them (the environment of the decoders)

\* length_fixed, the length of a long serial frame
length_fixed == 308

\* the length of the first zone of a long frame, closed by its sum8 byte
trame1_len == 300

RECURSIVE Patch(_, _)
Patch(buf, ps) ==
    IF ps = <<>> THEN buf
    ELSE Patch(SetAt(buf, Head(ps)[1], Head(ps)[2]), Tail(ps))

\* the sum8 byte at offset 299 set to the sum of the 299 bytes before it
Seal300(buf) == SetAt(buf, 299, calc_crc(Slice(buf, 0, 299)))

\* the last two bytes set to the CRC-16/Modbus of bytes [300, end - 2)
SealCrc(buf) ==
    LET crc == crc16_modbus2(Slice(buf, trame1_len, Len(buf) - 2))
    IN  SetAt(SetAt(buf, Len(buf) - 2, crc[1]), Len(buf) - 1, crc[2])

\* a valid long frame 55 AA EB 90 <type> ... with the given bytes patched in
LongFrame(type, ps) ==
    SealCrc(Seal300(Patch(Zeros(length_fixed),
        <<<<0, 85>>, <<1, 170>>, <<2, 235>>, <<3, 144>>, <<4, type>>>> \o ps)))

\* a settings frame: the flag register at 282, the bus address at 270 (and in
\* the second zone), the charge enable at 118
SettingsFrame(lo, hi, addr, charge) ==
    LongFrame(1, <<<<282, lo>>, <<283, hi>>, <<270, addr>>, <<300, addr>>,
                   <<118, charge>>, <<122, 1>>, <<126, 1>>, <<114, 16>>>>)

-----------------------------------------------------------------------------
\* The serial frame assembler at rest (JKSerialIO.__init__)

NoResponse == [none |-> TRUE, b |-> <<>>]

IdleFr ==
    /\ fr_wire = <<>>
    /\ fr_rx = <<>>
    /\ fr_pc = "idle"
    /\ fr_cmd_line = <<>>
    /\ fr_resp = NoResponse
    /\ fr_nodata = 0
    /\ fr_expired = FALSE
    /\ fr_shutdown = FALSE
    /\ fr_ret = "none"
    /\ fr_data = <<>>
    /\ fr_delivered = <<>>
    /\ fr_calls = 0
    /\ fr_stream = <<>>
    /\ fr_log = <<>>

NoCall == [ret |-> "none", reached |-> FALSE, data |-> <<>>, before |-> <<>>,
           appended |-> <<>>]

IdleBle ==
    /\ ble_wire = <<>>
    /\ ble_buffer = <<>>
    /\ ble_decoded = <<>>
    /\ ble_last = NoCall

NoExchange == [kind |-> "none", address |-> 0]

NoWrite == [cmd |-> <<>>, address |-> 0, src |-> "none", pending |-> 0,
            shutdown |-> FALSE]

NoEvent == [kind |-> "none", outcome |-> "none", before |-> 0, after |-> 0]

NothingSent == [about |-> {}, settings |-> {}, status |-> {}]

IdleMs ==
    /\ ms_pc = "about"
    /\ ms_phase = "write"
    /\ ms_i = 1
    /\ ms_out = NoExchange
    /\ ms_counter = 0
    /\ ms_ps = 0
    /\ ms_behind = 0
    /\ ms_queue = <<>>
    /\ ms_shutdown = FALSE
    /\ ms_result = "running"
    /\ ms_wd_calls = 0
    /\ ms_outstanding = 0
    /\ ms_last = NoWrite
    /\ ms_prev = NoWrite
    /\ ms_ev = NoEvent
    /\ ms_cycle = 0
    /\ ms_sent = NothingSent
    /\ ms_valid = FALSE
    /\ ms_ever = FALSE
    /\ ms_fails = 0

\* generate_cmd not called, in the specifications of the other components
IdleGc ==
    /\ gc_command = <<>>
    /\ gc_address = 0
    /\ gc_msg = <<>>

-----------------------------------------------------------------------------
\* Specification SpecSwitch: settings frames are decoded into sampler.setting
\* and switch commands are built from it

\* the values the low and the high byte of the flag register are drawn from:
\* 0x51 has heating (bit 0) and display (bit 4) set, 0xEE has both clear;
\* 0x32 has float charge (bit 9 of the register) set, 0x30 has it clear
RegLo == {0, 81, 238, 255}
RegHi == {0, 48, 50, 255}

\* the bus addresses found in frames; the sampler is registered under SwAddress
FrameAddresses == {1, 2}
SwAddress == 1

SwitchNames == {"charge", "discharge", "balance", "float_charge", "heating",
                "display", "unknown"}

\* a settings frame for SwAddress whose enable values at 118, 122 and 126 are
\* zero or have one nonzero byte, the n-th for charge, the next for discharge,
\* the top one for balance; the high byte of the flag register has bit 9 alone
\* or every bit but bit 9
EnableFrame(n) ==
    LongFrame(1, <<<<283, IF n % 2 = 1 THEN 2 ELSE 253>>,
                   <<270, SwAddress>>, <<300, SwAddress>>,
                   <<118 + n, 128>>, <<122 + ((n + 1) % 4), n % 2>>,
                   <<129, 255 * (n \div 2)>>>>)

SwFrames == {SettingsFrame(lo, hi, addr, ch) :
                lo \in RegLo, hi \in RegHi, addr \in FrameAddresses,
                ch \in {0, 1}}
            \cup {EnableFrame(n) : n \in 0..3}

\* a call of get_command_switch: its arguments, with what the sampler's setting
\* held when it was made (present: the setting was not None) and the settings
\* frame that setting had been decoded from
NoRequest == [switch |-> "", state |-> FALSE, present |-> FALSE, current |-> 0,
              frame |-> <<>>]

\* the switch builder at rest, in the specifications of the other components
IdleSw ==
    /\ sw_frame = <<>>
    /\ sw_setting = NoSetting
    /\ sw_req = NoRequest
    /\ sw_cmd = NoneResult

\* the command queue unused, in the specifications of the other components
IdleQu ==
    /\ qu_queue = <<>>
    /\ qu_enq = <<>>
    /\ qu_sent = <<>>
    /\ qu_pc = "cycle"
    /\ qu_shutdown = FALSE

\* no frame handed to mon_callback yet, no sampler registered (bms_list_by_ad = {})
IdleMc ==
    /\ mc_data = <<>>
    /\ mc_kind = "none"
    /\ mc_raised = ""
    /\ mc_samplers = <<>>
    /\ mc_before = <<>>
    /\ mc_calls = 0

\* no frame decoded as a sample
IdleSd ==
    /\ sd_buf = <<>>
    /\ sd_new = <<>>
    /\ sd_old = <<>>

\* no PeriodicBoolSignal under observation
IdlePs ==
    /\ ps_period = 0
    /\ ps_last_t = 0
    /\ ps_state = TRUE
    /\ ps_counter = 0
    /\ ps_now = 0
    /\ ps_before = [op |-> "none", counter |-> 0, last_t |-> 0, now |-> 0]
    /\ ps_calls = 0
    /\ ps_interval = 0
    /\ ps_pc = "idle"
    /\ ps_logged = 0

\* no checksum computed
IdleCc ==
    /\ cc_a = <<>>
    /\ cc_b = <<>>
    /\ cc_crc = <<>>

\* no set_switch request made, no settings record stored
IdleRq ==
    /\ rq_requests = <<>>
    /\ rq_stores = 0

\* no write command has been taken from the queue
IdleCa ==
    /\ ca_pc = "idle"
    /\ ca_cmd = <<>>
    /\ ca_rx = <<>>
    /\ ca_wire = <<>>
    /\ ca_expired = FALSE
    /\ ca_shutdown = FALSE
    /\ ca_ret = "none"
    /\ ca_read = <<>>
    /\ ca_writes = <<>>

\* read_serialport_data has not been called
IdleSg ==
    /\ sg_pc = "idle"
    /\ sg_counter = 0
    /\ sg_result = "running"
    /\ sg_shutdown = FALSE
    /\ sg_writes = 0

\* main() has started the watchdog task and awaits read_serial_data
IdleEx ==
    /\ ex_shutdown = FALSE
    /\ ex_io_shutdown = FALSE
    /\ ex_bg = "running"
    /\ ex_serial = "running"
    /\ ex_main = "waiting"
    /\ ex_counter = 0
    /\ ex_tripped = FALSE

\* no call of fetch yet: whether it was the first call after a set_switch, a
\* settings frame had been notified since that set_switch when the table was
\* looked up, the settings query was written (at: its place among the
\* writes), and how the call ended
NoFetch == [next |-> FALSE, notified |-> FALSE, queried |-> FALSE, at |-> 0,
            result |-> "none"]

\* the JKBt has been constructed and is not connected
IdleJb ==
    /\ jb_pc = "new"
    /\ jb_table = {}
    /\ jb_writes = <<>>
    /\ jb_fresh = FALSE
    /\ jb_notified = FALSE
    /\ jb_fetch = NoFetch
    /\ jb_calls = 0

InitSw ==
    /\ IdleJb
    /\ IdleEx
    /\ IdleSg
    /\ IdleCa
    /\ IdleRq
    /\ IdleCc
    /\ IdlePs
    /\ IdleSd
    /\ IdleMc
    /\ IdleQu
    /\ IdleSw
    /\ IdleFr
    /\ IdleBle
    /\ IdleMs
    /\ IdleGc

\* mon_callback on a settings frame: decode it and store it in the sampler
\* registered under the address found in the frame
SwDecode(data) ==
    /\ Len(data) >= 300 /\ At(data, 4) = 1
    /\ LET setting == s_decode_O1(data)
       IN  IF setting.address = SwAddress
           THEN sw_setting' = setting /\ sw_frame' = data
           ELSE UNCHANGED <<sw_setting, sw_frame>>
    /\ UNCHANGED <<sw_req, sw_cmd, notSw>>

\* get_command_switch(switch, state, sampler)
SwGetCommand(switch, state) ==
    /\ sw_req' = [switch |-> switch, state |-> state,
                  present |-> sw_setting.present,
                  current |-> sw_setting.status_282,
                  frame |-> sw_frame]
    /\ sw_cmd' = get_command_switch(switch, state, sw_setting)
    /\ UNCHANGED <<sw_frame, sw_setting, notSw>>

NextSw ==
    \/ \E data \in SwFrames : SwDecode(data)
    \/ \E switch \in SwitchNames, state \in BOOLEAN : SwGetCommand(switch, state)

SpecSwitch == InitSw /\ [][NextSw]_vars

-----------------------------------------------------------------------------
\* The serial frame assembler (JKSerialIO.read_trame_55_aa, cmd_line_11)

\* the empty polls after which the wait for the payload is abandoned
no_data_limit == 20

\* a callback invocation: callback(data) for a long frame (crc is None),
\* callback(cmd_line, crcGood) for a short frame
LongDelivery(data) == [kind |-> "long", data |-> data, crc |-> "None"]
ShortDelivery(data, good) ==
    [kind |-> "short", data |-> data, crc |-> IF good THEN "True" ELSE "False"]

\* cmd_line_11: the flag handed to the callback with an 11-byte cmd_line
crcGood(cmd_line) ==
    LET crc == crc16_modbus2(DropLast(cmd_line, 2))
    IN  cmd_line[Len(cmd_line) - 1] = crc[1] /\ cmd_line[Len(cmd_line)] = crc[2]

\* cmd_line_11: the callback invocations after the call
CmdLine11Delivered(cmd_line, delivered) ==
    IF Len(cmd_line) = 11
    THEN Append(delivered, ShortDelivery(cmd_line, crcGood(cmd_line)))
    ELSE delivered

CmdLine11Line_kept(cmd_line) == cmd_line

\* cmd_line_11: self.cmd_line after the call
CmdLine11Line(cmd_line) == IF Len(cmd_line) = 11 THEN <<>> ELSE cmd_line

\* the two checks of an assembled buffer and what follows them: "ok" (the
\* callback is awaited, True is returned), the check that failed (False is
\* returned), or "IndexError" when the message logged for the second check
\* formats trame2[-2] of a trame2 shorter than two bytes
trame_checks(data) ==
    LET trame1 == Slice(data, 0, 300)
        crc    == calc_crc(DropLast(trame1, 1))
        trame2 == Slice(data, 300, Len(data))
    IN  IF crc # trame1[Len(trame1)] THEN "sum8"
        ELSE IF crc16_modbus2(DropLast(trame2, 2)) # TakeLast(trame2, 2)
             THEN IF Len(trame2) < 2 THEN "IndexError" ELSE "crc16"
        ELSE "ok"

\* asyncio.sleep(0.01): the timeout of the call (time.time_ns() - t_now >
\* ns_timeout) may have passed when the task is resumed
Slept(expired) == {expired, TRUE}

\* a call of read_trame_55_aa begins
FrCall ==
    /\ fr_pc = "idle"
    /\ fr_calls < MaxCalls
    /\ fr_pc' = "head"
    /\ fr_calls' = fr_calls + 1
    /\ fr_expired' = FALSE
    /\ fr_ret' = "none"
    /\ fr_data' = <<>>
    /\ UNCHANGED <<fr_wire, fr_rx, fr_cmd_line, fr_resp, fr_nodata, fr_shutdown,
                   fr_delivered, fr_stream, fr_log,
                   notFr>>

\* the outer loop ends: shutdown, or the timeout has passed
FrHeadReturn ==
    /\ fr_pc = "head"
    /\ fr_shutdown \/ fr_expired
    /\ fr_pc' = "idle"
    /\ fr_ret' = "False"
    /\ fr_log' = Append(fr_log, [ret |-> "False", len |-> 0])
    /\ UNCHANGED <<fr_wire, fr_rx, fr_cmd_line, fr_resp, fr_nodata, fr_expired,
                   fr_shutdown, fr_data, fr_delivered, fr_calls, fr_stream, notFr>>

\* an iteration of the outer loop with fewer than 4 bytes waiting: sleep
FrHeadSleep ==
    /\ fr_pc = "head"
    /\ ~fr_shutdown /\ ~fr_expired
    /\ Len(fr_rx) < 4
    /\ fr_expired' \in Slept(fr_expired)
    /\ UNCHANGED <<fr_wire, fr_rx, fr_pc, fr_cmd_line, fr_resp, fr_nodata,
                   fr_shutdown, fr_ret, fr_data, fr_delivered, fr_calls, fr_stream, fr_log,
                   notFr>>

\* an iteration of the outer loop with at least 4 bytes waiting: one byte is
\* read, and a second one after 0x55; 55 AA begins a long frame, any other
\* byte goes to cmd_line (after 0x55, only the byte that followed it)
FrHeadByte ==
    /\ fr_pc = "head"
    /\ ~fr_shutdown /\ ~fr_expired
    /\ Len(fr_rx) >= 4
    /\ IF fr_rx[1] = 85
       THEN IF fr_rx[2] = 170
            THEN /\ fr_delivered' = IF Len(fr_cmd_line) > 0
                                    THEN CmdLine11Delivered(fr_cmd_line, fr_delivered)
                                    ELSE fr_delivered
                 /\ fr_cmd_line' = <<>>
                 /\ fr_pc' = "payload"
                 /\ fr_resp' = NoResponse
                 /\ fr_nodata' = 0
                 /\ fr_rx' = SubSeq(fr_rx, 3, Len(fr_rx))
            ELSE /\ fr_delivered' = CmdLine11Delivered(fr_cmd_line, fr_delivered)
                 /\ fr_cmd_line' = Append(CmdLine11Line(fr_cmd_line), fr_rx[2])
                 /\ fr_rx' = SubSeq(fr_rx, 3, Len(fr_rx))
                 /\ UNCHANGED <<fr_pc, fr_resp, fr_nodata>>
       ELSE /\ fr_delivered' = CmdLine11Delivered(fr_cmd_line, fr_delivered)
            /\ fr_cmd_line' = Append(CmdLine11Line(fr_cmd_line), fr_rx[1])
            /\ fr_rx' = SubSeq(fr_rx, 2, Len(fr_rx))
            /\ UNCHANGED <<fr_pc, fr_resp, fr_nodata>>
    /\ UNCHANGED <<fr_wire, fr_expired, fr_shutdown, fr_ret, fr_data, fr_calls,
                   fr_stream, fr_log,
                   notFr>>

\* the code after the inner loop: the buffer is rebuilt and validated, handed
\* to the callback when both checks pass; bytearray + None raises TypeError,
\* the log message of a failed second check raises IndexError on a short trame2
FrValidate(resp) ==
    /\ fr_pc' = "idle"
    /\ fr_resp' = resp
    /\ IF resp.none
       THEN /\ fr_ret' = "TypeError"
            /\ fr_log' = Append(fr_log, [ret |-> "TypeError", len |-> 0])
            /\ UNCHANGED <<fr_data, fr_delivered>>
       ELSE LET data == <<85, 170>> \o resp.b
                checked == trame_checks(data)
                ret == CASE checked = "ok" -> "True"
                         [] checked = "IndexError" -> "IndexError"
                         [] OTHER -> "False"
            IN  /\ fr_data' = data
                /\ fr_ret' = ret
                /\ fr_log' = Append(fr_log, [ret |-> ret, len |-> Len(data)])
                /\ fr_delivered' = IF checked = "ok"
                                   THEN Append(fr_delivered, LongDelivery(data))
                                   ELSE fr_delivered

\* an iteration of the inner loop with bytes waiting: at most the missing
\* bytes are read; the loop is left when the payload is complete
FrPayloadRead ==
    /\ fr_pc = "payload"
    /\ fr_nodata < no_data_limit
    /\ Len(fr_rx) > 0
    /\ LET length == length_fixed - 2
           l      == Min(Len(fr_rx), length - Len(fr_resp.b))
           resp   == [none |-> FALSE, b |-> fr_resp.b \o SubSeq(fr_rx, 1, l)]
       IN  /\ fr_rx' = SubSeq(fr_rx, l + 1, Len(fr_rx))
           /\ IF Len(resp.b) = length
              THEN FrValidate(resp) /\ UNCHANGED fr_nodata
              ELSE /\ fr_resp' = resp
                   /\ fr_nodata' = 0
                   /\ UNCHANGED <<fr_pc, fr_ret, fr_data, fr_delivered, fr_log>>
    /\ UNCHANGED <<fr_wire, fr_cmd_line, fr_expired, fr_shutdown, fr_calls, fr_stream, notFr>>

\* an iteration of the inner loop with nothing waiting: count and sleep
FrPayloadWait ==
    /\ fr_pc = "payload"
    /\ fr_nodata < no_data_limit
    /\ Len(fr_rx) = 0
    /\ fr_nodata' = fr_nodata + 1
    /\ fr_expired' \in Slept(fr_expired)
    /\ UNCHANGED <<fr_wire, fr_rx, fr_pc, fr_cmd_line, fr_resp, fr_shutdown,
                   fr_ret, fr_data, fr_delivered, fr_calls, fr_stream, fr_log,
                   notFr>>

\* the inner loop ends after 20 empty polls: what was received is validated
FrPayloadGiveUp ==
    /\ fr_pc = "payload"
    /\ fr_nodata >= no_data_limit
    /\ FrValidate(fr_resp)
    /\ UNCHANGED <<fr_wire, fr_rx, fr_cmd_line, fr_nodata, fr_expired, fr_shutdown,
                   fr_calls, fr_stream, notFr>>

\* the next chunk of the stream reaches the serial port
FrArrive ==
    /\ fr_wire # <<>>
    /\ fr_rx' = fr_rx \o Head(fr_wire)
    /\ fr_wire' = Tail(fr_wire)
    /\ UNCHANGED <<fr_pc, fr_cmd_line, fr_resp, fr_nodata, fr_expired, fr_shutdown,
                   fr_ret, fr_data, fr_delivered, fr_calls, fr_stream, fr_log,
                   notFr>>

\* on_exit sets jk_serial_io.shutdown
FrShutdown ==
    /\ ~fr_shutdown
    /\ fr_shutdown' = TRUE
    /\ UNCHANGED <<fr_wire, fr_rx, fr_pc, fr_cmd_line, fr_resp, fr_nodata, fr_expired,
                   fr_ret, fr_data, fr_delivered, fr_calls, fr_stream, fr_log,
                   notFr>>

-----------------------------------------------------------------------------
\* Specification SpecFrame: read_trame_55_aa is called again and again on a
\* byte stream that arrives in chunks

\* a sample frame (type 2) of the BMS at a bus address
SampleFrame(addr) == LongFrame(2, <<<<300, addr>>>>)

\* a frame with its sum8 byte, or its CRC, corrupted
BadSum(frame) == SetAt(frame, 299, (At(frame, 299) + 1) % 256)
BadCrc(frame) ==
    SetAt(frame, Len(frame) - 1, (At(frame, Len(frame) - 1) + 1) % 256)

\* the first n bytes of a frame, the last of them set to the sum8 of the
\* others: what is left of a transmission that stopped early
CutFrame(frame, n) ==
    SetAt(Slice(frame, 0, n), n - 1, calc_crc(Slice(frame, 0, n - 1)))

\* 11-byte lines seen on the bus ahead of a frame: a command of the master
\* to a slave, the same with a corrupted CRC, and a write to a register whose
\* number has the byte 0x55
ShortLines ==
    LET line == generate_cmd(command_status, 1)
    IN  { line,
          SetAt(line, 10, (At(line, 10) + 1) % 256),
          generate_cmd(<<16, 22, 85, 0, 1, 2, 0, 0>>, 1) }

\* bytes left on the line by a framing error, ahead of the next frame
GarbagePrefixes == { <<0, 1, 2>>, <<0, 85>> }

\* the byte streams read
FrStreams ==
    LET f == SampleFrame(1)
        g == SettingsFrame(81, 50, 2, 1)
    IN  { line \o f : line \in ShortLines } \cup
        { prefix \o f : prefix \in GarbagePrefixes } \cup
        { generate_cmd(command_status, 1) \o generate_cmd(command_status, 2) \o f,
          f,
          BadSum(f),
          BadCrc(f),
          BadSum(f) \o g,
          BadCrc(g) \o f,
          CutFrame(f, 200),
          Slice(f, 0, 301),
          Slice(LongFrame(2, <<<<300, 255>>, <<301, 255>>>>), 0, 302),
          Slice(f, 0, 3) }

\* the stream offsets at which a stream is cut into chunks
FrCuts == { <<>>, <<4, 150>>, <<2, 300>>, <<301>> }

\* the chunks of a stream cut at the offsets of cuts (those within it)
RECURSIVE Split(_, _, _)
Split(stream, from, cuts) ==
    IF from >= Len(stream) THEN <<>>
    ELSE IF cuts = <<>> \/ Head(cuts) >= Len(stream)
         THEN <<Slice(stream, from, Len(stream))>>
    ELSE <<Slice(stream, from, Head(cuts))>>
             \o Split(stream, Head(cuts), Tail(cuts))

FrInputs == { [stream |-> s, chunks |-> Split(s, 0, c)] :
                  s \in FrStreams, c \in FrCuts }

InitFr ==
    /\ IdleJb
    /\ IdleEx
    /\ IdleSg
    /\ IdleCa
    /\ IdleRq
    /\ IdleCc
    /\ IdlePs
    /\ IdleSd
    /\ IdleMc
    /\ IdleQu
    /\ IdleSw
    /\ IdleBle
    /\ IdleMs
    /\ IdleGc
    /\ \E input \in FrInputs : fr_stream = input.stream /\ fr_wire = input.chunks
    /\ fr_rx = <<>>
    /\ fr_pc = "idle"
    /\ fr_cmd_line = <<>>
    /\ fr_resp = NoResponse
    /\ fr_nodata = 0
    /\ fr_expired = FALSE
    /\ fr_shutdown = FALSE
    /\ fr_ret = "none"
    /\ fr_data = <<>>
    /\ fr_delivered = <<>>
    /\ fr_calls = 0
    /\ fr_log = <<>>

NextFr ==
    \/ FrCall
    \/ FrHeadReturn
    \/ FrHeadSleep
    \/ FrHeadByte
    \/ FrPayloadRead
    \/ FrPayloadWait
    \/ FrPayloadGiveUp
    \/ FrArrive
    \/ FrShutdown

SpecFrame == InitFr /\ [][NextFr]_vars

-----------------------------------------------------------------------------
\* The BLE notification handler (JKBt._notification_handler)

HEADER == <<85, 170, 235, 144>>

MIN_RESPONSE_SIZE == 300

\* HEADER in self._buffer
HeaderIn(buf) ==
    \E i \in 0..(Len(buf) - 4) : Slice(buf, i, i + 4) = HEADER

\* self._buffer.index(HEADER): the offset of the first occurrence
HeaderIndex(buf) ==
    CHOOSE i \in 0..(Len(buf) - 4) :
        /\ Slice(buf, i, i + 4) = HEADER
        /\ \A j \in 0..(i - 1) : Slice(buf, j, j + 4) # HEADER

\* _buffer_crc_check: "True", "False", or "IndexError" when the buffer has no
\* byte MIN_RESPONSE_SIZE - 1
buffer_crc_check(buf) ==
    IF Len(buf) < MIN_RESPONSE_SIZE THEN "IndexError"
    ELSE IF calc_crc(Slice(buf, 0, MIN_RESPONSE_SIZE - 1))
              = At(buf, MIN_RESPONSE_SIZE - 1)
         THEN "True"
    ELSE "False"

appended_keep(buffer, data) == buffer \o data

\* the buffer after self._buffer += data: a chunk that begins with the header
\* clears the buffer first
appended(buffer, data) ==
    IF Slice(data, 0, 4) = HEADER THEN data ELSE buffer \o data

\* the record of a call of the handler
Handled(ret, reached, data, buf) ==
    [ret |-> ret, reached |-> reached, data |-> data, before |-> ble_buffer,
     appended |-> buf]

\* one notification: the chunk is appended (after a clear when it begins with
\* the header); a buffer of MIN_RESPONSE_SIZE bytes is checked, trimmed to the
\* header and checked again when the check failed, decoded when a check
\* passed, and cleared; an exception leaves the handler before the clear
BleNotify ==
    /\ ble_wire # <<>>
    /\ ble_wire' = Tail(ble_wire)
    /\ LET data  == Head(ble_wire)
           buf   == appended(ble_buffer, data)
           first == buffer_crc_check(buf)
           trim  == first # "True" /\ HeaderIn(buf)
           buf2  == IF trim THEN Slice(buf, HeaderIndex(buf), Len(buf)) ELSE buf
           crc_ok == IF trim THEN buffer_crc_check(buf2) ELSE first
       IN  IF Len(buf) < MIN_RESPONSE_SIZE
           THEN /\ ble_buffer' = buf
                /\ ble_last' = Handled("returned", FALSE, data, buf)
                /\ UNCHANGED ble_decoded
           ELSE IF crc_ok = "IndexError"
                THEN /\ ble_buffer' = buf2
                     /\ ble_last' = Handled("IndexError", TRUE, data, buf)
                     /\ UNCHANGED ble_decoded
           ELSE /\ ble_buffer' = <<>>
                /\ ble_last' = Handled("returned", TRUE, data, buf)
                /\ ble_decoded' = IF crc_ok = "True"
                                  THEN Append(ble_decoded, buf2)
                                  ELSE ble_decoded
    /\ UNCHANGED notBle

-----------------------------------------------------------------------------
\* Specification SpecBle: the handler receives a byte stream in notifications
\* of a fixed size

\* a BLE response: the first 300 bytes of a long frame, sum8 in byte 299
BleFrame(type) == Slice(LongFrame(type, <<>>), 0, MIN_RESPONSE_SIZE)

\* the byte streams notified
BleStreams ==
    LET f == BleFrame(2)
        g == BleFrame(1)
    IN  { f,
          BadSum(f),
          <<0>> \o f,
          <<85>> \o f,
          <<0, 0, 0>> \o BadSum(f),
          f \o g,
          BadSum(f) \o g,
          <<0>> \o f \o g,
          f \o Zeros(20),
          Slice(f, 0, 100) \o g }

\* the sizes of the notifications a stream is cut into
BleChunkSizes == {20, 100, 128, 150, 300}

\* the notifications of a stream cut every size bytes
RECURSIVE Chunks(_, _)
Chunks(stream, size) ==
    IF stream = <<>> THEN <<>>
    ELSE <<Slice(stream, 0, size)>> \o Chunks(Slice(stream, size, Len(stream)), size)

InitBle ==
    /\ IdleJb
    /\ IdleEx
    /\ IdleSg
    /\ IdleCa
    /\ IdleRq
    /\ IdleCc
    /\ IdlePs
    /\ IdleSd
    /\ IdleMc
    /\ IdleQu
    /\ IdleSw
    /\ IdleFr
    /\ IdleMs
    /\ IdleGc
    /\ ble_wire \in { Chunks(s, n) : s \in BleStreams, n \in BleChunkSizes }
    /\ ble_buffer = <<>>
    /\ ble_decoded = <<>>
    /\ ble_last = NoCall

NextBle == BleNotify

SpecBle == InitBle /\ [][NextBle]_vars

-----------------------------------------------------------------------------
\* The master polling loop (JKSerialIO.read_serialport_data_mode_master_all_slave,
\* send_cmd_and_read_all_slave, send_command_from_queue, send_cmd_one_slave)

\* JKSerialIO(DEV_TTY_USB_, 115200, count_bat=2, ...)
count_bat == 2

\* PeriodicBoolSignal(period=5)
period == 5

\* the counter value above which the loop gives up
counter_limit == 800

\* the periods of the settings and of the device-info command, in cycles
settings_every == 6
about_every == 720

\* int(a / b) for a <= 0 < b: the quotient truncated toward zero
IntDiv(a, b) == IF a >= 0 THEN a \div b ELSE -((-a) \div b)

\* PeriodicBoolSignal.sleep called diff seconds after _last_t: the change of
\* the counter, and time.time() - _last_t when it returns
sleep_nb(diff) ==
    LET t == period - diff
    IN  IF t <= 0 THEN IntDiv(t, period) + 1 ELSE 1

sleep_behind(diff) ==
    LET t == period - diff
    IN  IF t <= 0 THEN diff - sleep_nb(diff) * period ELSE 0

\* the command of a periodic poll
CommandOf(kind) ==
    CASE kind = "about" -> command_about
      [] kind = "status" -> command_status
      [] OTHER -> command_settings

\* the first poll of a cycle, and the poll after the last address of one
FirstPoll(ps) ==
    IF ps % about_every = 0 THEN "about"
    ELSE IF ps % settings_every = 0 THEN "settings"
    ELSE "status"

NextPoll(kind, ps) ==
    CASE kind = "about" -> IF ps % settings_every = 0 THEN "settings" ELSE "status"
      [] kind = "settings" -> "status"
      [] OTHER -> "queue"

exchange_counter_never(ack, outcome, counter) == counter

exchange_counter_any(ack, outcome, counter) ==
    IF outcome = "ok" THEN 0 ELSE counter

\* send_cmd_one_slave: the counter it returns; an exchange read with
\* read_trame_55_aa resets it when a long frame was validated, an exchange
\* that waits for the echo of a write returns it as it was
exchange_counter(ack, outcome, counter) ==
    IF ack THEN counter
    ELSE IF outcome = "ok" THEN 0
    ELSE counter

AfterAck_skip(outcome) == IF outcome = "fail" THEN "queue" ELSE "requery"

\* send_command_from_queue: what follows the exchange of a queued write
AfterAck(outcome) == "requery"

\* send_cmd_in_queue putting the command ahead of those waiting
send_cmd_in_front(cmd, address, io) ==
    [cmd |-> <<<<cmd, address>>>> \o io.cmd, written |-> io.written]

send_cmd_now(cmd, address, io) ==
    [cmd |-> io.cmd, written |-> io.written + 1]

\* send_cmd_in_queue on io = (self.cmd, the commands written and pending)
send_cmd_in_queue(cmd, address, io) ==
    [cmd |-> Append(io.cmd, <<cmd, address>>), written |-> io.written]

\* the commands the loop writes
LoopCommands ==
    {command_about, command_settings, command_status}
        \cup {cmd_10(c, state) : c \in {112, 116, 120}, state \in BOOLEAN}

\* generate_cmd of the commands of the loop for each address
GeneratedCommands ==
    { <<c, a, generate_cmd(c, a)>> : c \in LoopCommands, a \in 1..count_bat }

\* generate_cmd(command, address)
ModbusCommand(command, address) ==
    IF \E g \in GeneratedCommands : g[1] = command /\ g[2] = address
    THEN (CHOOSE g \in GeneratedCommands : g[1] = command /\ g[2] = address)[3]
    ELSE generate_cmd(command, address)

\* send_bms_command: the record of a write
Written(cmd, address, src) ==
    [cmd |-> cmd, address |-> address, src |-> src, pending |-> ms_outstanding,
     shutdown |-> ms_shutdown]

\* send_cmd_one_slave of a periodic poll, up to the wait for the response
MsPollWrite ==
    /\ ms_result = "running"
    /\ ms_pc \in {"about", "settings", "status"}
    /\ ms_phase = "write"
    /\ ms_phase' = "wait"
    /\ ms_out' = [kind |-> ms_pc, address |-> ms_i]
    /\ ms_outstanding' = ms_outstanding + 1
    /\ ms_prev' = ms_last
    /\ ms_last' = Written(ModbusCommand(CommandOf(ms_pc), ms_i), ms_i, "poll")
    /\ ms_sent' = [ms_sent EXCEPT ![ms_pc] = @ \cup {ms_i}]
    /\ UNCHANGED <<ms_pc, ms_i, ms_counter, ms_ps, ms_behind, ms_queue, ms_shutdown,
                   ms_result, ms_wd_calls, ms_ev, ms_cycle, ms_valid, ms_ever,
                   ms_fails, notMs>>

\* the rest of send_cmd_one_slave for a poll or the settings poll after a
\* queued write: read_trame_55_aa returned True ("ok"), False ("fail") or
\* raised ("raise", caught by the loop, which returns)
MsResolve(outcome) ==
    /\ ms_result = "running"
    /\ ms_pc \in {"about", "settings", "status", "requery"}
    /\ ms_phase = "wait"
    /\ ms_outstanding' = ms_outstanding - 1
    /\ ms_out' = NoExchange
    /\ ms_phase' = "write"
    /\ ms_ev' = [kind |-> ms_out.kind, outcome |-> outcome, before |-> ms_counter,
                 after |-> exchange_counter(FALSE, outcome, ms_counter)]
    /\ ms_counter' = exchange_counter(FALSE, outcome, ms_counter)
    /\ ms_valid' = (ms_valid \/ outcome = "ok")
    /\ ms_ever' = (ms_ever \/ outcome = "ok")
    /\ IF outcome = "raise"
       THEN /\ ms_result' = "exception"
            /\ ms_pc' = "done"
            /\ UNCHANGED ms_i
       ELSE /\ UNCHANGED ms_result
            /\ IF ms_pc = "requery"
               THEN ms_pc' = "queue" /\ UNCHANGED ms_i
               ELSE IF ms_i < count_bat
                    THEN ms_i' = ms_i + 1 /\ UNCHANGED ms_pc
                    ELSE ms_i' = 1 /\ ms_pc' = NextPoll(ms_pc, ms_ps)
    /\ UNCHANGED <<ms_ps, ms_behind, ms_queue, ms_shutdown, ms_wd_calls, ms_last,
                   ms_prev, ms_cycle, ms_sent, ms_fails, notMs>>

\* send_command_from_queue takes a command: send_cmd_one_slave writes it and
\* waits for its echo
MsQueueWrite ==
    /\ ms_result = "running"
    /\ ms_pc = "queue"
    /\ ~ms_shutdown
    /\ ms_queue # <<>>
    /\ LET cmd     == Head(ms_queue)[1]
           address == Head(ms_queue)[2]
       IN  /\ ms_out' = [kind |-> "write", address |-> address]
           /\ ms_last' = Written(ModbusCommand(cmd, address), address, "queue")
    /\ ms_queue' = Tail(ms_queue)
    /\ ms_pc' = "qwrite"
    /\ ms_phase' = "wait"
    /\ ms_outstanding' = ms_outstanding + 1
    /\ ms_prev' = ms_last
    /\ UNCHANGED <<ms_i, ms_counter, ms_ps, ms_behind, ms_shutdown, ms_result,
                   ms_wd_calls, ms_ev, ms_cycle, ms_sent, ms_valid, ms_ever,
                   ms_fails, notMs>>

\* read_cmd_answer returned True ("ok") or False ("fail")
MsResolveAck(outcome) ==
    /\ ms_result = "running"
    /\ ms_pc = "qwrite"
    /\ ms_phase = "wait"
    /\ ms_outstanding' = ms_outstanding - 1
    /\ ms_phase' = "write"
    /\ ms_pc' = AfterAck(outcome)
    /\ ms_ev' = [kind |-> "write", outcome |-> outcome, before |-> ms_counter,
                 after |-> exchange_counter(TRUE, outcome, ms_counter)]
    /\ ms_counter' = exchange_counter(TRUE, outcome, ms_counter)
    /\ UNCHANGED <<ms_i, ms_out, ms_ps, ms_behind, ms_queue, ms_shutdown, ms_result,
                   ms_wd_calls, ms_last, ms_prev, ms_cycle, ms_sent, ms_valid,
                   ms_ever, ms_fails, notMs>>

\* the settings poll that follows a queued write, to the address written
MsRequeryWrite ==
    /\ ms_result = "running"
    /\ ms_pc = "requery"
    /\ ms_phase = "write"
    /\ ms_phase' = "wait"
    /\ ms_out' = [kind |-> "requery", address |-> ms_out.address]
    /\ ms_outstanding' = ms_outstanding + 1
    /\ ms_prev' = ms_last
    /\ ms_last' = Written(ModbusCommand(command_settings, ms_out.address),
                          ms_out.address, "requery")
    /\ UNCHANGED <<ms_pc, ms_i, ms_counter, ms_ps, ms_behind, ms_queue, ms_shutdown,
                   ms_result, ms_wd_calls, ms_ev, ms_cycle, ms_sent, ms_valid,
                   ms_ever, ms_fails, notMs>>

loop_continues_always(shutdown) == TRUE

\* while not self.shutdown, the condition of the master loop
loop_continues(shutdown) == ~shutdown

\* the queue is empty (or shutdown is set): send_command_from_queue returns
\* and the cycle ends d seconds after it began: the counter is incremented,
\* the loop gives up above counter_limit, else period_status.sleep() runs and
\* the loop condition is evaluated
MsEndCycle(d, cycles) ==
    /\ ms_result = "running"
    /\ ms_pc = "queue"
    /\ ms_shutdown \/ ms_queue = <<>>
    /\ ms_cycle < cycles
    /\ sleep_behind(ms_behind + d) <= MaxBehind
    /\ ms_counter' = ms_counter + 1
    /\ ms_ev' = [kind |-> "cycle", outcome |-> "none", before |-> ms_counter,
                 after |-> ms_counter + 1]
    /\ ms_fails' = IF ms_valid THEN 0 ELSE ms_fails + 1
    /\ IF ms_counter + 1 > counter_limit
       THEN /\ ms_wd_calls' = ms_wd_calls + 1
            /\ ms_result' = "watchdog"
            /\ ms_pc' = "done"
            /\ UNCHANGED <<ms_ps, ms_behind, ms_i, ms_cycle, ms_sent, ms_valid>>
       ELSE /\ ms_ps' = ms_ps + sleep_nb(ms_behind + d)
            /\ ms_behind' = sleep_behind(ms_behind + d)
            /\ UNCHANGED ms_wd_calls
            /\ IF ~loop_continues(ms_shutdown)
               THEN /\ ms_result' = "shutdown"
                    /\ ms_pc' = "done"
                    /\ UNCHANGED <<ms_i, ms_cycle, ms_sent, ms_valid>>
               ELSE /\ ms_pc' = FirstPoll(ms_ps')
                    /\ ms_i' = 1
                    /\ ms_cycle' = ms_cycle + 1
                    /\ ms_sent' = NothingSent
                    /\ ms_valid' = FALSE
                    /\ UNCHANGED ms_result
    /\ UNCHANGED <<ms_phase, ms_out, ms_queue, ms_shutdown, ms_outstanding, ms_last,
                   ms_prev, ms_ever, notMs>>

\* JKSerialIOBmsSetSwitch.set_switch, called by the MQTT task
MsSetSwitch(address, switch, state) ==
    /\ Len(ms_queue) < MaxQueue
    /\ LET cmd == get_command_switch(switch, state, sw_setting)
           io  == IF cmd.tag = "bytes"
                  THEN send_cmd_in_queue(cmd.val, address,
                           [cmd |-> ms_queue, written |-> ms_outstanding])
                  ELSE [cmd |-> ms_queue, written |-> ms_outstanding]
       IN  /\ ms_queue' = io.cmd
           /\ ms_outstanding' = io.written
           /\ sw_cmd' = cmd
    /\ sw_req' = [switch |-> switch, state |-> state,
                  present |-> sw_setting.present,
                  current |-> sw_setting.status_282,
                  frame |-> sw_frame]
    /\ UNCHANGED <<ms_pc, ms_phase, ms_i, ms_out, ms_counter, ms_ps, ms_behind,
                   ms_shutdown, ms_result, ms_wd_calls, ms_last, ms_prev, ms_ev,
                   ms_cycle, ms_sent, ms_valid, ms_ever, ms_fails,
                   sw_frame, sw_setting, frVars, bleVars, gcVars, quVars, mcVars, sdVars, psVars, ccVars, rqVars, caVars, sgVars, exVars, jbVars>>

\* on_exit sets jk_serial_io.shutdown
MsShutdown ==
    /\ ~ms_shutdown
    /\ ms_shutdown' = TRUE
    /\ UNCHANGED <<ms_pc, ms_phase, ms_i, ms_out, ms_counter, ms_ps, ms_behind,
                   ms_queue, ms_result, ms_wd_calls, ms_outstanding, ms_last,
                   ms_prev, ms_ev, ms_cycle, ms_sent, ms_valid, ms_ever, ms_fails,
                   notMs>>

-----------------------------------------------------------------------------
\* Specification SpecMaster: the loop polls two batteries while set_switch
\* requests arrive, exchanges succeed, fail or raise, and cycles last a
\* second, more than one period or more than two

\* the seconds a cycle lasts from the loop condition to period_status.sleep()
CycleSeconds == {1, period + 1, 2 * period + 1}

\* the set_switch requests made: a single-register switch, whose command is
\* queued, and a multi-flag switch
MsRequests == { [switch |-> "charge", state |-> TRUE],
                [switch |-> "heating", state |-> TRUE] }

InitMs == IdleSw /\ IdleFr /\ IdleBle /\ IdleMs /\ IdleGc /\ IdleQu /\ IdleMc /\ IdleSd /\ IdlePs /\ IdleCc /\ IdleRq /\ IdleCa /\ IdleSg /\ IdleEx /\ IdleJb

NextMs ==
    \/ MsPollWrite
    \/ \E outcome \in {"ok", "fail", "raise"} : MsResolve(outcome)
    \/ MsQueueWrite
    \/ \E outcome \in {"ok", "fail"} : MsResolveAck(outcome)
    \/ MsRequeryWrite
    \/ \E d \in CycleSeconds : MsEndCycle(d, MaxCycles)
    \/ \E address \in 1..count_bat, request \in MsRequests :
           MsSetSwitch(address, request.switch, request.state)
    \/ MsShutdown

SpecMaster == InitMs /\ [][NextMs]_vars

-----------------------------------------------------------------------------
\* Specification SpecWatchdog: the loop runs until it gives up; long frames
\* are validated in the first cycles only, cycles are short, and no switch is
\* requested

WdOutcomes == IF ms_cycle < MaxOkCycles THEN {"ok", "fail"} ELSE {"fail"}

NextWd ==
    \/ MsPollWrite
    \/ \E outcome \in WdOutcomes : MsResolve(outcome)
    \/ MsEndCycle(1, counter_limit + MaxOkCycles + 1)
    \/ MsShutdown

SpecWatchdog == InitMs /\ [][NextWd]_vars

-----------------------------------------------------------------------------
\* Specification SpecStop: SpecMaster with the loop scheduled fairly: the
\* task of the loop is the only one read_serial_data awaits, each of its
\* sleeps and each wait for a response ends after a bounded time, so a step
\* of the loop that can be taken is eventually taken

\* the cycles of the loop that are followed
StopCycles == 2

\* the steps of the task of the loop
MsTask ==
    \/ MsPollWrite
    \/ \E outcome \in {"ok", "fail", "raise"} : MsResolve(outcome)
    \/ MsQueueWrite
    \/ \E outcome \in {"ok", "fail"} : MsResolveAck(outcome)
    \/ MsRequeryWrite
    \/ \E d \in CycleSeconds : MsEndCycle(d, StopCycles)

\* the switches are requested of the first battery
NextStop ==
    \/ MsTask
    \/ \E address \in {1}, request \in MsRequests :
           MsSetSwitch(address, request.switch, request.state)
    \/ MsShutdown

SpecStop == InitMs /\ [][NextStop]_vars /\ WF_vars(MsTask)

-----------------------------------------------------------------------------
\* Specification SpecCommand: generate_cmd is applied to a command and a bus
\* address

\* the highest bus address a command is wrapped for
MaxAddress == 15

\* the commands wrapped: those of the polling loop, and merges of each flag
\* into two register values
GcCommands ==
    LoopCommands \cup
    { cmd_11(f, state, [NoSetting EXCEPT !.present = TRUE, !.status_282 = v]).val :
        f \in {float_charge_flag, heating_flag, display_flag},
        state \in BOOLEAN, v \in {0, 12881} }

InitGc ==
    /\ IdleJb
    /\ IdleEx
    /\ IdleSg
    /\ IdleCa
    /\ IdleRq
    /\ IdleCc
    /\ IdlePs
    /\ IdleSd
    /\ IdleMc
    /\ IdleQu
    /\ IdleSw
    /\ IdleFr
    /\ IdleBle
    /\ IdleMs
    /\ gc_command \in GcCommands
    /\ gc_address \in 0..MaxAddress
    /\ gc_msg = <<>>

\* modbus_msg = self.generate_cmd(command, address)
GcGenerate ==
    /\ gc_msg = <<>>
    /\ gc_msg' = generate_cmd(gc_command, gc_address)
    /\ UNCHANGED <<gc_command, gc_address, notGc>>

NextGc == GcGenerate

SpecCommand == InitGc /\ [][NextGc]_vars

-----------------------------------------------------------------------------
\* Specification SpecQueue: set_switch requests put commands in the queue while
\* the master loop drains it once per cycle (send_cmd_in_queue,
\* send_command_from_queue)

\* the commands put in the queue in a run
MaxEnqueued == 3

\* the commands queued: charge on and discharge off
QuCommands == {cmd_10(112, TRUE), cmd_10(116, FALSE)}

InitQu ==
    /\ IdleJb
    /\ IdleEx
    /\ IdleSg
    /\ IdleCa
    /\ IdleRq
    /\ IdleCc
    /\ IdlePs
    /\ IdleSd
    /\ IdleMc
    /\ IdleSw
    /\ IdleFr
    /\ IdleBle
    /\ IdleMs
    /\ IdleGc
    /\ qu_queue = <<>>
    /\ qu_enq = <<>>
    /\ qu_sent = <<>>
    /\ qu_pc = "cycle"
    /\ qu_shutdown = FALSE

\* send_cmd_in_queue(cmd, address), called by the MQTT task at any time:
\* self.cmd.put_nowait on a queue without a size limit
QuPut(cmd, address) ==
    /\ Len(qu_enq) < MaxEnqueued
    /\ qu_queue' = send_cmd_in_queue(cmd, address,
                        [cmd |-> qu_queue, written |-> Len(qu_sent)]).cmd
    /\ qu_enq' = Append(qu_enq, <<cmd, address>>)
    /\ UNCHANGED <<qu_sent, qu_pc, qu_shutdown, notQu>>

\* the polls of a cycle are done: the master loop calls send_command_from_queue
QuEnter ==
    /\ qu_pc = "cycle"
    /\ qu_pc' = "drain"
    /\ UNCHANGED <<qu_queue, qu_enq, qu_sent, qu_shutdown, notQu>>

\* an iteration of send_command_from_queue that finds a command:
\* self.cmd.get_nowait() and the write of send_cmd_one_slave
QuGet ==
    /\ qu_pc = "drain"
    /\ ~qu_shutdown
    /\ qu_queue # <<>>
    /\ qu_sent' = Append(qu_sent, Head(qu_queue))
    /\ qu_queue' = Tail(qu_queue)
    /\ qu_pc' = "exchange"
    /\ UNCHANGED <<qu_enq, qu_shutdown, notQu>>

\* the exchange of the write and the settings poll after it are over, or one
\* of them raised and the master loop returned
QuExchanged(raised) ==
    /\ qu_pc = "exchange"
    /\ qu_pc' = IF raised THEN "done" ELSE "drain"
    /\ UNCHANGED <<qu_queue, qu_enq, qu_sent, qu_shutdown, notQu>>

\* send_command_from_queue returns (queue.Empty, or shutdown): the master
\* loop gives up (watchdog), ends on shutdown, or begins the next cycle
QuReturn(watchdog) ==
    /\ qu_pc = "drain"
    /\ qu_shutdown \/ qu_queue = <<>>
    /\ qu_pc' = IF watchdog \/ qu_shutdown THEN "done" ELSE "cycle"
    /\ UNCHANGED <<qu_queue, qu_enq, qu_sent, qu_shutdown, notQu>>

\* on_exit sets jk_serial_io.shutdown
QuShutdown ==
    /\ ~qu_shutdown
    /\ qu_shutdown' = TRUE
    /\ UNCHANGED <<qu_queue, qu_enq, qu_sent, qu_pc, notQu>>

\* the steps of the master loop
QuLoop ==
    \/ QuEnter
    \/ QuGet
    \/ \E raised \in BOOLEAN : QuExchanged(raised)
    \/ \E watchdog \in BOOLEAN : QuReturn(watchdog)

NextQu ==
    \/ \E cmd \in QuCommands, address \in 1..count_bat : QuPut(cmd, address)
    \/ QuLoop
    \/ QuShutdown

\* the task of the master loop is scheduled as long as it has not returned
SpecQueue == InitQu /\ [][NextQu]_vars /\ WF_vars(QuLoop)

-----------------------------------------------------------------------------
\* Specification SpecCallback: frames of every kind are handed to mon_callback,
\* which decodes them and feeds the sampler registered for the address

MaxCallbacks == 3

\* BmsSampler.__init__: no setting, no device info, an empty queue
NoInfo == [present |-> FALSE, address |-> 0, model |-> <<>>]
NewSampler == [setting |-> NoSetting, device_info |-> NoInfo, queue |-> <<>>]

\* put handing every sample to the first sampler
put_to_first(samplers, sample) ==
    [samplers EXCEPT ![1].queue =
        Append(@, [sample |-> sample, setting |-> samplers[1].setting])]

\* BmsSampler.put on the sampler registered for the sample's address: the
\* sample takes the sampler's setting, if any, and is queued
put(samplers, sample) ==
    IF sample.address \in DOMAIN samplers
    THEN [samplers EXCEPT ![sample.address].queue =
            Append(@, [sample |-> sample,
                       setting |-> samplers[sample.address].setting])]
    ELSE samplers

\* BmsSampler.set_setting on the sampler registered for the setting's address
set_setting(samplers, setting) ==
    IF setting.address \in DOMAIN samplers
    THEN [samplers EXCEPT ![setting.address].setting = setting]
    ELSE samplers

\* BmsSampler.set_info on the sampler registered for the info's address
set_info(samplers, info) ==
    IF info.address \in DOMAIN samplers
    THEN [samplers EXCEPT ![info.address].device_info =
            [present |-> TRUE, address |-> info.address, model |-> info.model]]
    ELSE samplers

mon_callback_any_kind(data, samplers) ==
    IF Len(data) >= 300 /\ At(data, 4) = 1
    THEN [kind |-> "s_decode_O1", raised |-> "",
          samplers |-> set_setting(samplers, s_decode_O1(data))]
    ELSE IF Len(data) >= 300 /\ At(data, 4) = 3
    THEN LET info == decode_info(data)
         IN  [kind |-> "decode_info", raised |-> info.raised,
              samplers |-> IF info.raised = "" THEN set_info(samplers, info)
                           ELSE samplers]
    ELSE IF Len(data) >= 300
    THEN [kind |-> "s_decode_sample", raised |-> "",
          samplers |-> put(samplers, s_decode_sample(TRUE, data))]
    ELSE [kind |-> "none", raised |-> "", samplers |-> samplers]

\* mon_callback(data): the decoder run, the exception raised ("" for none) and
\* the samplers afterwards
mon_callback(data, samplers) ==
    IF Len(data) >= 300 /\ At(data, 4) = 2
    THEN [kind |-> "s_decode_sample", raised |-> "",
          samplers |-> put(samplers, s_decode_sample(TRUE, data))]
    ELSE IF Len(data) >= 300 /\ At(data, 4) = 1
    THEN [kind |-> "s_decode_O1", raised |-> "",
          samplers |-> set_setting(samplers, s_decode_O1(data))]
    ELSE IF Len(data) >= 300 /\ At(data, 4) = 3
    THEN LET info == decode_info(data)
         IN  [kind |-> "decode_info", raised |-> info.raised,
              samplers |-> IF info.raised = "" THEN set_info(samplers, info)
                           ELSE samplers]
    ELSE [kind |-> "none", raised |-> "", samplers |-> samplers]

\* a device-info frame: the model name at offset 6, the address at 300
InfoFrame(addr, model) ==
    LongFrame(3, <<<<300, addr>>>>
                  \o [k \in 1..Len(model) |-> <<5 + k, model[k]>>])

\* a buffer of n bytes 0x7F with the given discriminant at offset 4
Filled(n, type) == [i \in 1..n |-> IF i = 5 THEN type ELSE 127]

\* the buffers handed to mon_callback: frames of the three kinds for
\* registered and unregistered addresses (two of them with different bytes at
\* 270 and 300), device-info frames whose strings
\* cannot be read, frames of unknown kinds, and buffers shorter than 300 bytes
McBuffers ==
    {SampleFrame(1), SampleFrame(2), SampleFrame(9),
     Slice(SampleFrame(1), 0, 300),
     SettingsFrame(1, 2, 1, 1), SettingsFrame(16, 0, 9, 0),
     SetAt(SettingsFrame(1, 2, 1, 1), 270, 2), SetAt(SampleFrame(2), 270, 1),
     InfoFrame(1, <<74, 75>>), InfoFrame(2, <<74, 255>>), Filled(300, 3),
     LongFrame(0, <<<<300, 1>>>>), LongFrame(4, <<<<300, 1>>>>),
     Filled(300, 127), Filled(300, 255),
     Slice(SampleFrame(1), 0, 299), Slice(SettingsFrame(1, 2, 1, 1), 0, 299),
     Slice(InfoFrame(1, <<74, 75>>), 0, 120), Filled(299, 3),
     cmd_10(112, TRUE), <<85, 170, 235, 144>>, <<>>}

InitMc ==
    /\ IdleJb
    /\ IdleEx
    /\ IdleSg
    /\ IdleCa
    /\ IdleRq
    /\ IdleCc
    /\ IdlePs
    /\ IdleSd
    /\ IdleSw /\ IdleFr /\ IdleBle /\ IdleMs /\ IdleGc /\ IdleQu
    /\ mc_data = <<>>
    /\ mc_kind = "none"
    /\ mc_raised = ""
    /\ mc_samplers = [a \in 1..count_bat |-> NewSampler]
    /\ mc_before = [a \in 1..count_bat |-> NewSampler]
    /\ mc_calls = 0

\* one call of mon_callback(data)
McCallback(data) ==
    /\ mc_calls < MaxCallbacks
    /\ LET r == mon_callback(data, mc_samplers)
       IN  /\ mc_kind' = r.kind
           /\ mc_raised' = r.raised
           /\ mc_samplers' = r.samplers
    /\ mc_data' = data
    /\ mc_before' = mc_samplers
    /\ mc_calls' = mc_calls + 1
    /\ UNCHANGED notMc

NextMc == \E data \in McBuffers : McCallback(data)

SpecCallback == InitMc /\ [][NextMc]_vars

-----------------------------------------------------------------------------
\* Specification SpecSample: a sample frame is decoded by s_decode_sample in
\* both firmware layouts

\* the bytes of a 32-bit little-endian value at offset i, as patches
Le32(i, v) ==
    <<<<i, v % 256>>, <<i + 1, (v \div 256) % 256>>,
      <<i + 2, (v \div 65536) % 256>>, <<i + 3, (v \div 16777216) % 256>>>>

\* a sample frame of the 11.x layout for bus address 1: the state of charge
\* byte at 173, the remaining charge at 174, the capacity at 178 (mAh)
ChargeFrame(soc, charge, capacity) ==
    LongFrame(2, <<<<300, 1>>, <<173, soc>>>>
                  \o Le32(174, charge) \o Le32(178, capacity))

\* a sample frame in which every 16-bit field at an even offset in 6..298
\* holds a value of its own (half its offset)
RampFrame ==
    SealCrc(Seal300([i \in 1..length_fixed |->
        IF i <= 5 THEN <<85, 170, 235, 144, 2>>[i]
        ELSE IF i <= 299 /\ i % 2 = 1 THEN (i - 1) \div 2
        ELSE 0]))

\* a sample frame with the 16-bit value lo, hi at each of the given offsets
FieldFrame(offsets, lo, hi) ==
    LongFrame(2, [k \in 1..(2 * Len(offsets)) |->
                    IF k % 2 = 1 THEN <<offsets[(k + 1) \div 2], lo>>
                    ELSE <<offsets[k \div 2] + 1, hi>>])

\* the remaining charges and capacities of the frames, in mAh
SdCharges == {0, 1, 50000, 100000, 100001, 200000, 280000}
SdCapacities == {0, 50000, 100000, 280000}

\* the frames decoded: every charge with every capacity, a frame of distinct
\* fields, frames whose sensors report -2000 (no sensor) or a negative
\* temperature, frames whose sensors all report 15.2 or 20.1 degrees, and an
\* empty sample
SdFrames ==
    {ChargeFrame(50, charge, capacity) :
        charge \in SdCharges, capacity \in SdCapacities}
    \cup {RampFrame, SampleFrame(1),
          FieldFrame(<<130, 132, 134, 144, 162, 164, 254, 256, 258>>, 152, 0),
          FieldFrame(<<144, 162, 164, 254, 256, 258>>, 201, 0),
          FieldFrame(<<130, 162, 254>>, 48, 248),
          FieldFrame(<<132, 164, 134>>, 156, 255),
          FieldFrame(<<134>>, 250, 0), FieldFrame(<<144>>, 250, 0),
          FieldFrame(<<166>>, 250, 0), FieldFrame(<<166>>, 1, 0),
          FieldFrame(<<166>>, 0, 16), FieldFrame(<<256, 258>>, 44, 1)}

InitSd ==
    /\ IdleJb
    /\ IdleEx
    /\ IdleSg
    /\ IdleCa
    /\ IdleRq
    /\ IdleCc
    /\ IdlePs
    /\ IdleSw /\ IdleFr /\ IdleBle /\ IdleMs /\ IdleGc /\ IdleQu /\ IdleMc
    /\ sd_buf \in SdFrames
    /\ sd_new = <<>>
    /\ sd_old = <<>>

\* s_decode_sample(is_new_11fw_32s, buf=sd_buf)
SdDecode(is_new_11fw_32s) ==
    /\ IF is_new_11fw_32s
       THEN /\ sd_new = <<>>
            /\ sd_new' = <<s_decode_sample(TRUE, sd_buf)>>
            /\ UNCHANGED sd_old
       ELSE /\ sd_old = <<>>
            /\ sd_old' = <<s_decode_sample(FALSE, sd_buf)>>
            /\ UNCHANGED sd_new
    /\ UNCHANGED <<sd_buf, notSd>>

NextSd == \E is_new_11fw_32s \in BOOLEAN : SdDecode(is_new_11fw_32s)

SpecSample == InitSd /\ [][NextSd]_vars

-----------------------------------------------------------------------------
\* PeriodicBoolSignal (sampling.py)

\* the signal under observation
Signal ==
    [period |-> ps_period, last_t |-> ps_last_t, state |-> ps_state,
     counter |-> ps_counter]

\* nb = int(t / self.period) + 1, computed when t <= 0
signal_nb(t, p) == IntDiv(t, p) + 1

set_time_never_false(signal, now) ==
    LET t  == signal.period - (now - signal.last_t)
        nb == signal_nb(t, signal.period)
    IN  IF t <= 0
        THEN [signal EXCEPT !.counter = @ + nb,
                            !.last_t = @ + nb * signal.period,
                            !.state = TRUE]
        ELSE signal

\* set_time() called at time now: the signal afterwards
set_time(signal, now) ==
    LET t  == signal.period - (now - signal.last_t)
        nb == signal_nb(t, signal.period)
    IN  IF t <= 0
        THEN [signal EXCEPT !.counter = @ + nb,
                            !.last_t = @ + nb * signal.period,
                            !.state = TRUE]
        ELSE [signal EXCEPT !.state = FALSE]

\* sleep() called at time now, asyncio.sleep(t) returning late seconds after t:
\* the signal afterwards and the time at which the call returns
sleep(signal, now, late) ==
    LET t  == signal.period - (now - signal.last_t)
        nb == signal_nb(t, signal.period)
    IN  IF t <= 0
        THEN [signal |-> [signal EXCEPT !.counter = @ + nb,
                                        !.last_t = @ + nb * signal.period],
              now |-> now]
        ELSE [signal |-> [signal EXCEPT !.counter = @ + 1,
                                        !.last_t = @ + signal.period],
              now |-> now + t + late]

NoSignalCall == [op |-> "none", counter |-> 0, last_t |-> 0, now |-> 0]

-----------------------------------------------------------------------------
\* Specification SpecSignal: sleep() and set_time() are called on a signal of
\* period 5 after any delay

MaxSignalCalls == 4

\* the seconds between the return of one call and the next call
PsDelays == {0, 1, period, 2 * period, 3 * period + 1}

\* the seconds asyncio.sleep may return late
PsLate == {0, 1}

InitPs ==
    /\ IdleJb
    /\ IdleEx
    /\ IdleSg
    /\ IdleCa
    /\ IdleRq
    /\ IdleCc
    /\ IdleSw /\ IdleFr /\ IdleBle /\ IdleMs /\ IdleGc /\ IdleQu /\ IdleMc
    /\ IdleSd
    /\ ps_period = period
    /\ ps_last_t = 0
    /\ ps_state = TRUE
    /\ ps_counter = 0
    /\ ps_now = 0
    /\ ps_before = NoSignalCall
    /\ ps_calls = 0
    /\ ps_interval = 0
    /\ ps_pc = "idle"
    /\ ps_logged = 0

\* await signal.sleep(), delay seconds after the previous call returned
PsSleep(delay, late) ==
    /\ ps_calls < MaxSignalCalls
    /\ LET r == sleep(Signal, ps_now + delay, late)
       IN  /\ ps_counter' = r.signal.counter
           /\ ps_last_t' = r.signal.last_t
           /\ ps_now' = r.now
    /\ ps_before' = [op |-> "sleep", counter |-> ps_counter,
                     last_t |-> ps_last_t, now |-> ps_now + delay]
    /\ ps_calls' = ps_calls + 1
    /\ UNCHANGED <<ps_period, ps_state, ps_interval, ps_pc, ps_logged, notPs>>

\* signal.set_time(), delay seconds after the previous call returned
PsSetTime(delay) ==
    /\ ps_calls < MaxSignalCalls
    /\ LET r == set_time(Signal, ps_now + delay)
       IN  /\ ps_counter' = r.counter
           /\ ps_last_t' = r.last_t
           /\ ps_state' = r.state
    /\ ps_now' = ps_now + delay
    /\ ps_before' = [op |-> "set_time", counter |-> ps_counter,
                     last_t |-> ps_last_t, now |-> ps_now + delay]
    /\ ps_calls' = ps_calls + 1
    /\ UNCHANGED <<ps_period, ps_interval, ps_pc, ps_logged, notPs>>

NextPs ==
    \/ \E delay \in PsDelays, late \in PsLate : PsSleep(delay, late)
    \/ \E delay \in PsDelays : PsSetTime(delay)

SpecSignal == InitPs /\ [][NextPs]_vars

-----------------------------------------------------------------------------
\* Specification SpecPeriodTest: the loop of test_period.py, which calls
\* set_time() at a regular interval until the counter exceeds 10

\* PeriodicBoolSignal(period=10), p.counter > 10, sleep(5)
test_period == 10
test_limit == 10
test_sleep == 5

\* the regular intervals tried, none longer than the period
PtIntervals == {1, 3, test_sleep, 7, test_period}

InitPt ==
    /\ IdleJb
    /\ IdleEx
    /\ IdleSg
    /\ IdleCa
    /\ IdleRq
    /\ IdleCc
    /\ IdleSw /\ IdleFr /\ IdleBle /\ IdleMs /\ IdleGc /\ IdleQu /\ IdleMc
    /\ IdleSd
    /\ ps_period = test_period
    /\ ps_last_t = 0
    /\ ps_state = TRUE
    /\ ps_counter = 0
    /\ ps_now = 0
    /\ ps_before = NoSignalCall
    /\ ps_calls = 0
    /\ ps_interval \in PtIntervals
    /\ ps_pc = "test"
    /\ ps_logged = 0

\* if p: log; if p.counter > 10: break
PtTest ==
    /\ ps_pc = "test"
    /\ ps_logged' = ps_logged + (IF ps_state THEN 1 ELSE 0)
    /\ ps_pc' = IF ps_counter > test_limit THEN "done" ELSE "sleep"
    /\ UNCHANGED <<ps_period, ps_last_t, ps_state, ps_counter, ps_now,
                   ps_before, ps_calls, ps_interval, notPs>>

\* sleep(interval)
PtSleep ==
    /\ ps_pc = "sleep"
    /\ ps_now' = ps_now + ps_interval
    /\ ps_pc' = "set_time"
    /\ UNCHANGED <<ps_period, ps_last_t, ps_state, ps_counter, ps_before,
                   ps_calls, ps_interval, ps_logged, notPs>>

\* p.set_time()
PtSetTime ==
    /\ ps_pc = "set_time"
    /\ LET r == set_time(Signal, ps_now)
       IN  /\ ps_counter' = r.counter
           /\ ps_last_t' = r.last_t
           /\ ps_state' = r.state
    /\ ps_before' = [op |-> "set_time", counter |-> ps_counter,
                     last_t |-> ps_last_t, now |-> ps_now]
    /\ ps_calls' = ps_calls + 1
    /\ ps_pc' = "test"
    /\ UNCHANGED <<ps_period, ps_now, ps_interval, ps_logged, notPs>>

NextPt == PtTest \/ PtSleep \/ PtSetTime

SpecPeriodTest == InitPt /\ [][NextPt]_vars /\ WF_vars(NextPt)

-----------------------------------------------------------------------------
\* Specification SpecChecksum: calc_crc is applied to two byte strings and to
\* their concatenation

MaxBytes == 2

\* the bytes the strings are made of
CcBytes == {0, 1, 127, 128, 255}

\* the byte strings of at most MaxBytes bytes
CcStrings == UNION {[1..n -> CcBytes] : n \in 0..MaxBytes}

InitCc ==
    /\ IdleJb
    /\ IdleEx
    /\ IdleSg
    /\ IdleCa
    /\ IdleRq
    /\ IdleSw /\ IdleFr /\ IdleBle /\ IdleMs /\ IdleGc /\ IdleQu /\ IdleMc
    /\ IdleSd /\ IdlePs
    /\ cc_a \in CcStrings
    /\ cc_b \in CcStrings
    /\ cc_crc = <<>>

\* calc_crc(a), calc_crc(b), calc_crc(a + b)
CcCompute ==
    /\ cc_crc = <<>>
    /\ cc_crc' = <<calc_crc(cc_a), calc_crc(cc_b), calc_crc(cc_a \o cc_b)>>
    /\ UNCHANGED <<cc_a, cc_b, notCc>>

NextCc == CcCompute

SpecChecksum == InitCc /\ [][NextCc]_vars

-----------------------------------------------------------------------------
\* Specification SpecRequests: set_switch is called while settings records
\* are stored and the master loop drains the command queue

MaxRequests == 2
MaxStores == 2

\* the switches requested
RqSwitches == {"float_charge", "heating", "display", "charge"}

\* the settings frames received: the flag register 0x3041 or 0x3251
RqFrames == {SettingsFrame(65, 48, SwAddress, 1), SettingsFrame(81, 50, SwAddress, 1)}

InitRq ==
    /\ IdleJb
    /\ IdleEx
    /\ IdleSg
    /\ IdleCa
    /\ IdleSw /\ IdleFr /\ IdleBle /\ IdleMs /\ IdleGc /\ IdleQu /\ IdleMc
    /\ IdleSd /\ IdlePs /\ IdleCc
    /\ rq_requests = <<>>
    /\ rq_stores = 0

\* mon_callback on a settings frame: bms_sampler.set_setting(setting)
RqStore(data) ==
    /\ rq_stores < MaxStores
    /\ sw_setting' = s_decode_O1(data)
    /\ sw_frame' = data
    /\ rq_stores' = rq_stores + 1
    /\ UNCHANGED <<sw_req, sw_cmd, rq_requests, quVars, notSwQuRq>>

\* JKSerialIOBmsSetSwitch.set_switch(switch, state) for the sampler's address
RqSetSwitch(switch, state) ==
    /\ Len(rq_requests) < MaxRequests
    /\ LET cmd == get_command_switch(switch, state, sw_setting)
       IN  /\ sw_cmd' = cmd
           /\ IF cmd.tag = "bytes"
              THEN /\ qu_queue' = send_cmd_in_queue(cmd.val, SwAddress,
                                      [cmd |-> qu_queue,
                                       written |-> Len(qu_sent)]).cmd
                   /\ qu_enq' = Append(qu_enq, <<cmd.val, SwAddress>>)
              ELSE UNCHANGED <<qu_queue, qu_enq>>
           /\ rq_requests' = Append(rq_requests,
                                [switch |-> switch, state |-> state,
                                 stores |-> rq_stores,
                                 queued |-> cmd.tag = "bytes"])
    /\ sw_req' = [switch |-> switch, state |-> state,
                  present |-> sw_setting.present,
                  current |-> sw_setting.status_282,
                  frame |-> sw_frame]
    /\ UNCHANGED <<sw_frame, sw_setting, qu_sent, qu_pc, qu_shutdown,
                   rq_stores, notSwQuRq>>

NextRq ==
    \/ \E data \in RqFrames : RqStore(data)
    \/ \E switch \in RqSwitches, state \in BOOLEAN : RqSetSwitch(switch, state)
    \/ QuLoop

SpecRequests == InitRq /\ [][NextRq]_vars

-----------------------------------------------------------------------------
\* send_command_from_queue taking one write command from the queue:
\* send_cmd_one_slave writes it and read_cmd_answer waits for its echo, then
\* the settings command is written to the same address

\* the number of bytes of the written frame the answer repeats
cmd_answer_index == 6

cmd_answer_first8(cmd) == Slice(cmd, 0, cmd_answer_index + 2)

\* send_cmd_one_slave: cmd[0:cmd_answer_index] followed by its crc16_modbus2
cmd_answer(cmd) ==
    LET head == Slice(cmd, 0, cmd_answer_index)
    IN  head \o crc16_modbus2(head)

\* (cmd, address) = self.cmd.get_nowait() and the write of send_cmd_one_slave;
\* the bytes of wire arrive afterwards
CaTake(command, address, wire) ==
    /\ ca_pc = "idle"
    /\ ~ca_shutdown
    /\ ca_cmd' = ModbusCommand(command, address)
    /\ ca_writes' = Append(ca_writes, ModbusCommand(command, address))
    /\ ca_wire' = wire
    /\ ca_expired' = FALSE
    /\ ca_pc' = "head"
    /\ UNCHANGED <<ca_rx, ca_shutdown, ca_ret, ca_read, notCa>>

\* read_cmd_answer at its loop head with the flag set or the timeout elapsed
CaHeadReturn ==
    /\ ca_pc = "head"
    /\ ca_shutdown \/ ca_expired
    /\ ca_ret' = "False"
    /\ ca_pc' = "answered"
    /\ UNCHANGED <<ca_cmd, ca_rx, ca_wire, ca_expired, ca_shutdown, ca_read,
                   ca_writes, notCa>>

\* ser.in_waiting >= len(cmd_answer): the bytes are read and compared
CaHeadRead ==
    /\ ca_pc = "head"
    /\ ~ca_shutdown /\ ~ca_expired
    /\ LET answer == cmd_answer(ca_cmd)
       IN  /\ Len(ca_rx) >= Len(answer)
           /\ ca_read' = Slice(ca_rx, 0, Len(answer))
           /\ ca_rx' = Slice(ca_rx, Len(answer), Len(ca_rx))
           /\ ca_ret' = IF Slice(ca_rx, 0, Len(answer)) = answer
                        THEN "True" ELSE "False"
    /\ ca_pc' = "answered"
    /\ UNCHANGED <<ca_cmd, ca_wire, ca_expired, ca_shutdown, ca_writes, notCa>>

\* fewer bytes are waiting: asyncio.sleep(0.01), during which the timeout may
\* elapse
CaHeadSleep ==
    /\ ca_pc = "head"
    /\ ~ca_shutdown /\ ~ca_expired
    /\ Len(ca_rx) < Len(cmd_answer(ca_cmd))
    /\ ca_expired' \in Slept(ca_expired)
    /\ UNCHANGED <<ca_pc, ca_cmd, ca_rx, ca_wire, ca_shutdown, ca_ret, ca_read,
                   ca_writes, notCa>>

\* the second send_cmd_one_slave of send_command_from_queue: the settings
\* command to the address written; the queue is empty afterwards and the
\* function returns
CaRequery ==
    /\ ca_pc = "answered"
    /\ ca_writes' = Append(ca_writes, ModbusCommand(command_settings, ca_cmd[1]))
    /\ ca_pc' = "done"
    /\ UNCHANGED <<ca_cmd, ca_rx, ca_wire, ca_expired, ca_shutdown, ca_ret,
                   ca_read, notCa>>

\* bytes sent by the BMS reach the serial port
CaArrive ==
    /\ ca_wire # <<>>
    /\ ca_rx' = ca_rx \o Head(ca_wire)
    /\ ca_wire' = Tail(ca_wire)
    /\ UNCHANGED <<ca_pc, ca_cmd, ca_expired, ca_shutdown, ca_ret, ca_read,
                   ca_writes, notCa>>

\* on_exit sets jk_serial_io.shutdown
CaShutdown ==
    /\ ~ca_shutdown
    /\ ca_shutdown' = TRUE
    /\ UNCHANGED <<ca_pc, ca_cmd, ca_rx, ca_wire, ca_expired, ca_ret, ca_read,
                   ca_writes, notCa>>

-----------------------------------------------------------------------------
\* Specification SpecAnswer: one switch command is taken from the queue for
\* one of two batteries and the BMS answers with its echo, whole or in two
\* chunks, with a damaged or a short echo, with the start of the frame
\* itself, with a byte ahead of the echo, or not at all

\* the commands queued by set_switch
CaCommands == { cmd_10(c, state) : c \in {112, 116, 120}, state \in BOOLEAN }

\* what the BMS sends after the frame cmd was written
CaWires(cmd) ==
    LET echo == cmd_answer(cmd)
    IN  { <<echo>>,
          <<Slice(echo, 0, 3), Slice(echo, 3, Len(echo))>>,
          <<echo \o <<85, 170>>>>,
          <<SetAt(echo, 3, (At(echo, 3) + 1) % 256)>>,
          <<SetAt(echo, 7, (At(echo, 7) + 1) % 256)>>,
          <<Slice(echo, 0, 7)>>,
          <<Slice(cmd, 0, 8)>>,
          <<<<0>> \o echo>>,
          <<>> }

InitCa == IdleSw /\ IdleFr /\ IdleBle /\ IdleMs /\ IdleGc /\ IdleQu /\ IdleMc /\ IdleSd /\ IdlePs /\ IdleCc /\ IdleRq /\ IdleCa /\ IdleSg /\ IdleEx /\ IdleJb

NextCa ==
    \/ \E command \in CaCommands, address \in 1..count_bat :
           \E wire \in CaWires(ModbusCommand(command, address)) :
               CaTake(command, address, wire)
    \/ CaHeadReturn
    \/ CaHeadRead
    \/ CaHeadSleep
    \/ CaRequery
    \/ CaArrive
    \/ CaShutdown

SpecAnswer == InitCa /\ [][NextCa]_vars

-----------------------------------------------------------------------------
\* read_serialport_data, the reader of the single-device mode

\* the call: the command, when there is one, is written, and counter = 0
SgStart(command) ==
    /\ sg_pc = "idle"
    /\ sg_writes' = IF command # <<>> THEN sg_writes + 1 ELSE sg_writes
    /\ sg_counter' = 0
    /\ sg_pc' = "loop"
    /\ UNCHANGED <<sg_result, sg_shutdown, notSg>>

\* while not self.shutdown is false: the function returns
SgLoopExit ==
    /\ sg_pc = "loop"
    /\ sg_shutdown
    /\ sg_result' = "shutdown"
    /\ sg_pc' = "done"
    /\ UNCHANGED <<sg_counter, sg_shutdown, sg_writes, notSg>>

\* counter += 1 and read_trame_55_aa is awaited
SgCall ==
    /\ sg_pc = "loop"
    /\ ~sg_shutdown
    /\ sg_counter' = sg_counter + 1
    /\ sg_pc' = "read"
    /\ UNCHANGED <<sg_result, sg_shutdown, sg_writes, notSg>>

\* read_trame_55_aa returned True ("ok"), False ("fail") or raised ("raise",
\* caught by except Exception, which returns); above counter_limit the
\* function returns
SgReturn(outcome) ==
    /\ sg_pc = "read"
    /\ LET counter == IF outcome = "ok" THEN 0 ELSE sg_counter
       IN  /\ sg_counter' = counter
           /\ IF outcome = "raise"
              THEN sg_result' = "exception" /\ sg_pc' = "done"
              ELSE IF counter > counter_limit
                   THEN sg_result' = "watchdog" /\ sg_pc' = "done"
                   ELSE sg_pc' = "loop" /\ UNCHANGED sg_result
    /\ UNCHANGED <<sg_shutdown, sg_writes, notSg>>

\* on_exit sets jk_serial_io.shutdown
SgShutdown ==
    /\ ~sg_shutdown
    /\ sg_shutdown' = TRUE
    /\ UNCHANGED <<sg_pc, sg_counter, sg_result, sg_writes, notSg>>

-----------------------------------------------------------------------------
\* Specification SpecSingle: read_serialport_data is called with or without
\* an initial command, and each read_trame_55_aa delivers a frame, fails or
\* raises

InitSg == IdleSw /\ IdleFr /\ IdleBle /\ IdleMs /\ IdleGc /\ IdleQu /\ IdleMc /\ IdleSd /\ IdlePs /\ IdleCc /\ IdleRq /\ IdleCa /\ IdleSg /\ IdleEx /\ IdleJb

NextSg ==
    \/ \E command \in {<<>>, command_status} : SgStart(command)
    \/ SgLoopExit
    \/ SgCall
    \/ \E outcome \in {"ok", "fail", "raise"} : SgReturn(outcome)
    \/ SgShutdown

SpecSingle == InitSg /\ [][NextSg]_vars

-----------------------------------------------------------------------------
\* main(): background_loop with the MQTT watchdog of bg_checks, the serial
\* loop awaited by main(), and on_exit

\* the condition on which the loops of JKSerialIO end: self.shutdown
io_stops(io_shutdown, shutdown) == io_shutdown

\* one iteration of background_loop: bg_checks finds the last publish older
\* than the timeout (late), sets the global shutdown and the loop breaks
ExBgCheck(late) ==
    /\ ex_bg = "running"
    /\ ~ex_shutdown
    /\ IF late
       THEN /\ ex_shutdown' = TRUE
            /\ ex_tripped' = TRUE
            /\ ex_bg' = "ended"
       ELSE UNCHANGED <<ex_shutdown, ex_tripped, ex_bg>>
    /\ UNCHANGED <<ex_io_shutdown, ex_serial, ex_main, ex_counter, notEx>>

\* while not shutdown of background_loop is false
ExBgExit ==
    /\ ex_bg = "running"
    /\ ex_shutdown
    /\ ex_bg' = "ended"
    /\ UNCHANGED <<ex_shutdown, ex_io_shutdown, ex_serial, ex_main, ex_counter,
                   ex_tripped, notEx>>

\* one cycle of the serial loop, in which a long frame was validated (ok) or
\* none was; the loop returns on its condition or above counter_limit
ExSerialCycle(ok) ==
    /\ ex_serial = "running"
    /\ IF io_stops(ex_io_shutdown, ex_shutdown)
       THEN ex_serial' = "returned" /\ UNCHANGED ex_counter
       ELSE LET counter == (IF ok THEN 0 ELSE ex_counter) + 1
            IN  /\ ex_counter' = counter
                /\ ex_serial' = IF counter > counter_limit THEN "returned"
                                ELSE "running"
    /\ UNCHANGED <<ex_shutdown, ex_io_shutdown, ex_bg, ex_main, ex_tripped, notEx>>

\* main() after read_serial_data returned: shutdown = True, store_states
ExMainExit ==
    /\ ex_serial = "returned"
    /\ ex_main = "waiting"
    /\ ex_shutdown' = TRUE
    /\ ex_main' = "exited"
    /\ UNCHANGED <<ex_io_shutdown, ex_bg, ex_serial, ex_counter, ex_tripped, notEx>>

\* on_exit: shutdown += 1, jk_serial_io.shutdown = True
ExOnExit ==
    /\ ~ex_io_shutdown
    /\ ex_shutdown' = TRUE
    /\ ex_io_shutdown' = TRUE
    /\ UNCHANGED <<ex_bg, ex_serial, ex_main, ex_counter, ex_tripped, notEx>>

-----------------------------------------------------------------------------
\* Specification SpecExit: the watchdog task and the serial loop run, each
\* scheduled fairly by the event loop; publishes may stop, the BMS may answer
\* or not, and an exit signal may arrive

InitEx == IdleSw /\ IdleFr /\ IdleBle /\ IdleMs /\ IdleGc /\ IdleQu /\ IdleMc /\ IdleSd /\ IdlePs /\ IdleCc /\ IdleRq /\ IdleCa /\ IdleSg /\ IdleEx /\ IdleJb

NextEx ==
    \/ \E late \in BOOLEAN : ExBgCheck(late)
    \/ ExBgExit
    \/ \E ok \in BOOLEAN : ExSerialCycle(ok)
    \/ ExMainExit
    \/ ExOnExit

SpecExit ==
    /\ InitEx /\ [][NextEx]_vars
    /\ WF_vars(\E ok \in BOOLEAN : ExSerialCycle(ok))
    /\ WF_vars(ExMainExit)
    /\ WF_vars(ExBgExit)

-----------------------------------------------------------------------------
\* JKBt (BLE): connect, the notifications decoded by _decode_msg, set_switch
\* and fetch, called one after the other by the task of the connection

MaxBleCalls == 3

\* the commands of the BLE protocol: device info, settings/state
cmd_device_info == 151
cmd_settings == 150

\* the registers of the switches
switch_register(switch) ==
    CASE switch = "charge" -> 29
      [] switch = "discharge" -> 30
      [] switch = "balance" -> 31
      [] OTHER -> 48

invalidate_nothing(table) == table

\* self._resp_table.pop(0x01, None)
invalidate(table) == table \ {1}

\* connect: the device info and the settings are queried and answered
JbConnect ==
    /\ jb_pc = "new"
    /\ jb_writes' = jb_writes \o <<cmd_device_info, cmd_settings>>
    /\ jb_table' = {1, 2, 3}
    /\ jb_pc' = "idle"
    /\ UNCHANGED <<jb_fresh, jb_notified, jb_fetch, jb_calls, notJb>>

\* _decode_msg of a valid frame: self._resp_table[resp_type] = buf, and the
\* future of the type is resolved, which ends the wait of fetch for a sample
\* frame or of _q for a settings frame
JbNotify(resp_type) ==
    /\ jb_pc # "new"
    /\ jb_table' = jb_table \cup {resp_type}
    /\ jb_notified' = (jb_notified \/ resp_type = 1)
    /\ jb_pc' = IF jb_pc = "fetch_wait" /\ resp_type = 2 THEN "fetch_check"
                ELSE IF jb_pc = "fetch_query" /\ resp_type = 1 THEN "fetch_decode"
                ELSE jb_pc
    /\ UNCHANGED <<jb_writes, jb_fresh, jb_fetch, jb_calls, notJb>>

\* set_switch up to asyncio.sleep(.2): the register of the switch is written
JbSetSwitch(switch) ==
    /\ jb_pc = "idle"
    /\ jb_calls < MaxBleCalls
    /\ jb_calls' = jb_calls + 1
    /\ jb_writes' = Append(jb_writes, switch_register(switch))
    /\ jb_pc' = "switch_sleep"
    /\ UNCHANGED <<jb_table, jb_fresh, jb_notified, jb_fetch, notJb>>

\* the rest of set_switch: the settings frame is dropped from the table
JbSetSwitchDone ==
    /\ jb_pc = "switch_sleep"
    /\ jb_table' = invalidate(jb_table)
    /\ jb_fresh' = TRUE
    /\ jb_notified' = FALSE
    /\ jb_pc' = "idle"
    /\ UNCHANGED <<jb_writes, jb_fetch, jb_calls, notJb>>

\* fetch(wait=True) is called and waits for a sample frame
JbFetch ==
    /\ jb_pc = "idle"
    /\ jb_calls < MaxBleCalls
    /\ jb_calls' = jb_calls + 1
    /\ jb_fetch' = [next |-> jb_fresh, notified |-> FALSE, queried |-> FALSE,
                    at |-> 0, result |-> "none"]
    /\ jb_fresh' = FALSE
    /\ jb_pc' = "fetch_wait"
    /\ UNCHANGED <<jb_table, jb_writes, jb_notified, notJb>>

\* if 0x01 not in self._resp_table: the settings query is written by _q
JbFetchCheck ==
    /\ jb_pc = "fetch_check"
    /\ IF 1 \notin jb_table
       THEN /\ jb_writes' = Append(jb_writes, cmd_settings)
            /\ jb_fetch' = [jb_fetch EXCEPT !.queried = TRUE,
                                            !.at = Len(jb_writes) + 1,
                                            !.notified = jb_notified]
            /\ jb_pc' = "fetch_query"
       ELSE /\ jb_fetch' = [jb_fetch EXCEPT !.notified = jb_notified]
            /\ jb_pc' = "fetch_decode"
            /\ UNCHANGED jb_writes
    /\ UNCHANGED <<jb_table, jb_fresh, jb_notified, jb_calls, notJb>>

\* a wait of fetch ends with a timeout, which fetch raises
JbFetchTimeout ==
    /\ jb_pc \in {"fetch_wait", "fetch_query"}
    /\ jb_fetch' = [jb_fetch EXCEPT !.result = "TimeoutError"]
    /\ jb_pc' = "idle"
    /\ UNCHANGED <<jb_table, jb_writes, jb_fresh, jb_notified, jb_calls, notJb>>

\* the sample frame of the table is decoded and returned
JbFetchDecode ==
    /\ jb_pc = "fetch_decode"
    /\ jb_fetch' = [jb_fetch EXCEPT !.result = "sample"]
    /\ jb_pc' = "idle"
    /\ UNCHANGED <<jb_table, jb_writes, jb_fresh, jb_notified, jb_calls, notJb>>

-----------------------------------------------------------------------------
\* Specification SpecJkBt: a connected JKBt on which set_switch and fetch are
\* called in any order while frames of the three types are notified

InitJb == IdleSw /\ IdleFr /\ IdleBle /\ IdleMs /\ IdleGc /\ IdleQu /\ IdleMc /\ IdleSd /\ IdlePs /\ IdleCc /\ IdleRq /\ IdleCa /\ IdleSg /\ IdleEx /\ IdleJb

NextJb ==
    \/ JbConnect
    \/ \E resp_type \in {1, 2, 3} : JbNotify(resp_type)
    \/ \E switch \in {"charge", "float_charge"} : JbSetSwitch(switch)
    \/ JbSetSwitchDone
    \/ JbFetch
    \/ JbFetchCheck
    \/ JbFetchTimeout
    \/ JbFetchDecode

SpecJkBt == InitJb /\ [][NextJb]_vars

-----------------------------------------------------------------------------
\* Properties of the switch command builder

MultiFlagSwitches == {"float_charge", "heating", "display"}

\* the bit of the flag register each multi-flag switch stands for
FlagBit(switch) ==
    CASE switch = "float_charge" -> 2 ^ 9
      [] switch = "heating"      -> 2 ^ 0
      [] switch = "display"      -> 2 ^ 4

\* the register value carried big-endian by the last two bytes of a command
RegisterOf(cmd) == 256 * cmd[Len(cmd) - 1] + cmd[Len(cmd)]

\* C2: for a multi-flag switch the command is 8 bytes long and its last two
\* bytes carry, big-endian, current | flag_bit when enabling and
\* current & ~flag_bit when disabling.
C2_MultiFlagMerge ==
    (sw_req.switch \in MultiFlagSwitches /\ sw_req.present) =>
        LET f == FlagBit(sw_req.switch)
            v == IF sw_req.state THEN BitOr(sw_req.current, f)
                 ELSE BitAnd(sw_req.current, Not16(f))
        IN  /\ sw_cmd.tag = "bytes"
            /\ Len(sw_cmd.val) = 8
            /\ sw_cmd.val[7] = v \div 256
            /\ sw_cmd.val[8] = v % 256

\* bit k of the flag register as the settings frame carries it: little-endian
\* at offsets 282 and 283
FrameRegisterBit(frame, k) ==
    IF k < 8 THEN Bit(At(frame, 282), k) ELSE Bit(At(frame, 283), k - 8)

\* C3: a float_charge-enable command built from the setting decoded from a
\* settings frame carries a register value with bit 9 set and every other bit
\* equal to the bit of the register in the frame.
C3_SettingsRoundTrip ==
    (sw_req.switch = "float_charge" /\ sw_req.state /\ sw_req.present) =>
        /\ sw_cmd.tag = "bytes"
        /\ Bit(RegisterOf(sw_cmd.val), 9) = 1
        /\ \A k \in (0..15) \ {9} :
              Bit(RegisterOf(sw_cmd.val), k) = FrameRegisterBit(sw_req.frame, k)

\* a float_charge-enable command was built from a decoded register whose
\* bit 9 was clear and which had other bits set
C3_Witness ==
    /\ sw_req.switch = "float_charge" /\ sw_req.state /\ sw_req.present
    /\ Bit(sw_req.current, 9) = 0
    /\ sw_req.current # 0
    /\ sw_cmd.tag = "bytes"

-----------------------------------------------------------------------------
\* Properties of the serial frame assembler

\* the long frames among the callback invocations
LongFrames(delivered) == SelectSeq(delivered, LAMBDA d : d.kind = "long")

\* sum8 of bytes [0,299) equals byte 299
Sum8Passes(data) ==
    Len(data) >= 300 /\ calc_crc(Slice(data, 0, 299)) = At(data, 299)

\* the CRC-16/Modbus of bytes [300, end-2) equals the last two bytes, low
\* byte first
Crc16Passes(data) ==
    /\ Len(data) >= 2
    /\ LET crc == crc16_modbus(Slice(data, 300, Len(data) - 2))
       IN  TakeLast(data, 2) = <<crc % 256, crc \div 256>>

\* C1: read_trame_55_aa returns True, and hands the buffer it assembled to
\* the callback, only if sum8 of bytes [0,299) equals byte 299 and the
\* CRC-16/Modbus of bytes [300, end-2) equals the last two bytes; when one of
\* the checks fails the call returns False, and no long frame the callback
\* ever received fails one of them.
C1_BothChecksGate ==
    /\ fr_ret = "True" =>
          /\ Sum8Passes(fr_data) /\ Crc16Passes(fr_data)
          /\ fr_delivered # <<>>
          /\ fr_delivered[Len(fr_delivered)] = LongDelivery(fr_data)
    /\ (fr_pc = "idle" /\ fr_data # <<>>
           /\ ~(Sum8Passes(fr_data) /\ Crc16Passes(fr_data))) =>
          fr_ret = "False"
    /\ \A i \in 1..Len(fr_delivered) :
          fr_delivered[i].kind = "long" =>
              Sum8Passes(fr_delivered[i].data) /\ Crc16Passes(fr_delivered[i].data)

\* the streams made of a full-length long frame with a corrupted checksum
\* immediately followed by a valid long frame
CorruptThenValid ==
    { s \in FrStreams :
        /\ Len(s) = 2 * length_fixed
        /\ LET corrupt == Slice(s, 0, length_fixed)
               valid   == Slice(s, length_fixed, 2 * length_fixed)
           IN  /\ ~(Sum8Passes(corrupt) /\ Crc16Passes(corrupt))
               /\ Sum8Passes(valid) /\ Crc16Passes(valid) }

\* C9: on a stream made of a full-length long frame with a corrupted
\* checksum immediately followed by a valid long frame, no call of
\* read_trame_55_aa raises, the callback receives no long frame but the valid
\* one and receives it at most once, and two calls that each assembled a
\* full-length buffer rejected the first and delivered the second, the
\* callback having been invoked exactly once.
C9_CorruptThenValid ==
    fr_stream \in CorruptThenValid =>
        LET valid == Slice(fr_stream, length_fixed, 2 * length_fixed)
        IN  /\ \A i \in 1..Len(fr_log) : fr_log[i].ret \in {"True", "False"}
            /\ LongFrames(fr_delivered) \in {<<>>, <<LongDelivery(valid)>>}
            /\ (/\ Len(fr_log) >= 2
                /\ fr_log[1].len = length_fixed
                /\ fr_log[2].len = length_fixed) =>
                   /\ fr_log[1].ret = "False"
                   /\ fr_log[2].ret = "True"
                   /\ fr_delivered = <<LongDelivery(valid)>>

-----------------------------------------------------------------------------
\* Properties of the BLE notification handler

\* C10: when the accumulated buffer has reached 300 bytes the handler returns
\* without raising and leaves the buffer empty, whatever the sum8 check and
\* the search for the header tag gave, and every buffer passed to _decode_msg
\* has sum8 over bytes [0,299) equal to byte 299.
C10_HandlerDiscards ==
    /\ ble_last.ret # "IndexError"
    /\ ble_last.reached => ble_buffer = <<>>
    /\ \A i \in 1..Len(ble_decoded) : Sum8Passes(ble_decoded[i])

-----------------------------------------------------------------------------
\* Properties of the master polling loop

PollKinds == {"about", "settings", "status", "requery"}

\* the settings poll as written to each address: address, command, CRC
SettingsPolls == { generate_cmd(command_settings, a) : a \in 1..count_bat }

\* C4: the loop gives up through the watchdog when, and only when, the error
\* counter exceeds 800 at the end of a cycle, which happens after 800 cycles
\* in a row without a validated long frame (801 when none was validated since
\* the loop began): the callback is then invoked once and nothing is written
\* or called back afterwards; with fewer than 800 such cycles in a row the
\* watchdog has not fired.
C4_WatchdogInv ==
    /\ ms_result = "watchdog" <=> ms_counter > counter_limit
    /\ ms_result = "watchdog" =>
          /\ ms_pc = "done"
          /\ ms_wd_calls = 1
          /\ ms_outstanding = 0
          /\ ms_fails = IF ms_ever THEN counter_limit ELSE counter_limit + 1
    /\ ms_result # "watchdog" => ms_wd_calls = 0
    /\ ms_fails < counter_limit => ms_result # "watchdog"

C4_Watchdog ==
    /\ []C4_WatchdogInv
    /\ [][ms_result = "watchdog" =>
            /\ ms_last' = ms_last
            /\ ms_wd_calls' = ms_wd_calls
            /\ ms_result' = ms_result]_vars

C4_Witness ==
    /\ ms_result = "watchdog"
    /\ ms_ever
    /\ ms_fails = counter_limit
    /\ ms_counter = counter_limit + 1

\* C4 as stated: the watchdog fires when, and only when, the counter exceeds
\* 800 at the end of a cycle, and then more than 800 cycles in a row have
\* ended without a validated long frame; the callback is invoked once and the
\* loop has returned.
C4_MoreThan800 ==
    /\ ms_result = "watchdog" <=> ms_counter > counter_limit
    /\ ms_result = "watchdog" =>
          /\ ms_fails > counter_limit
          /\ ms_wd_calls = 1
          /\ ms_pc = "done"

\* C5: at most one command is outstanding on the transport: every command is
\* written when no earlier exchange waits for its response or timeout, also
\* while set_switch requests arrive, which are queued and not written.
C5_OneOutstanding ==
    /\ ms_outstanding <= 1
    /\ ms_last.pending = 0
    /\ ms_prev.pending = 0
    /\ ms_outstanding = 1 <=> ms_phase = "wait"

C5_Witness ==
    /\ ms_phase = "wait"
    /\ ms_outstanding = 1
    /\ ms_last.src = "queue"
    /\ ms_queue # <<>>

\* C6: the command written after a queued write is the settings poll to the
\* address of that write, and the loop is in the exchange of the write or of
\* that settings poll until it is written, whether the write was acknowledged
\* or not.
C6_RequeryFollows ==
    /\ ms_prev.src = "queue" =>
          /\ ms_last.src = "requery"
          /\ ms_last.address = ms_prev.address
          /\ ms_last.cmd \in SettingsPolls
          /\ ms_last.cmd[1] = ms_prev.address
    /\ ms_last.src = "queue" => ms_pc \in {"qwrite", "requery"}

C6_Witness ==
    /\ ms_prev.src = "queue"
    /\ ms_last.src = "requery"
    /\ ms_phase = "wait"
    /\ ms_ev.kind = "write"
    /\ ms_ev.outcome = "fail"

\* C7: when the polls of a cycle are done the status command has been sent
\* to every address 1..count_bat, the settings command to every address if
\* the number of the cycle is a multiple of 6 and to none otherwise, and the
\* device-info command likewise for the multiples of 720.
C7_Schedule ==
    (ms_result = "running" /\ ms_pc = "queue") =>
        /\ ms_sent.status = 1..count_bat
        /\ ms_sent.settings =
              IF ms_cycle % settings_every = 0 THEN 1..count_bat ELSE {}
        /\ ms_sent.about =
              IF ms_cycle % about_every = 0 THEN 1..count_bat ELSE {}

C11_HeaderClears ==
    ble_last.ret # "none" =>
        IF Slice(ble_last.data, 0, 4) = HEADER
        THEN /\ ble_last.appended = ble_last.data
             /\ Slice(ble_last.appended, 0, 4) = HEADER
        ELSE ble_last.appended = ble_last.before \o ble_last.data

C11_Witness ==
    /\ ble_last.ret = "returned"
    /\ ble_last.before # <<>>
    /\ Slice(ble_last.data, 0, 4) = HEADER
    /\ ble_buffer = ble_last.data

\* the calls of read_trame_55_aa that abandoned the wait for the payload: the
\* buffer they validated is shorter than length_fixed
AbandonedCalls == { i \in 1..Len(fr_log) : 0 < fr_log[i].len /\ fr_log[i].len < length_fixed }

\* C12: a call that abandons the wait for the payload after 20 empty polls,
\* with fewer than length_fixed - 2 payload bytes received, returns False
\* without raising, and no incomplete buffer is handed to the callback.
C12_AbandonedWait ==
    /\ \A i \in AbandonedCalls : fr_log[i].ret = "False"
    /\ \A k \in 1..Len(fr_delivered) :
           fr_delivered[k].kind = "long" => Len(fr_delivered[k].data) = length_fixed

\* the bytes of the stream that were read from the serial port
RECURSIVE WireLen(_)
WireLen(chunks) == IF chunks = <<>> THEN 0 ELSE Len(Head(chunks)) + WireLen(Tail(chunks))

BytesRead == Len(fr_stream) - Len(fr_rx) - WireLen(fr_wire)

\* the callback invocations that delivered a given short line
ShortDeliveriesOf(line) ==
    SelectSeq(fr_delivered, LAMBDA d : d.kind = "short" /\ d.data = line)

\* the last two bytes of an 11-byte line are the CRC-16/Modbus, low byte
\* first, of the first nine
LineCrcPasses(line) ==
    LET crc == crc16_modbus(Slice(line, 0, 9))
    IN  Slice(line, 9, 11) = <<crc % 256, crc \div 256>>

\* the streams made of an 11-byte line and a frame, with the invocation
\* expected for the line
LineStreams ==
    { [line |-> line, stream |-> line \o SampleFrame(1),
       call |-> [kind |-> "short", data |-> line,
                 crc |-> IF LineCrcPasses(line) THEN "True" ELSE "False"]] :
        line \in ShortLines }

\* C13: when exactly 11 bytes (no pair 55 AA among them) are received ahead
\* of a 55 AA header, then once the header has been read those 11 bytes have
\* been delivered to the callback exactly once, with a flag that is true iff
\* their last two bytes are the CRC-16/Modbus of the first nine.
C13_ShortLineDelivered ==
    \A ls \in LineStreams :
        (fr_stream = ls.stream /\ BytesRead >= Len(ls.line) + 2) =>
            ShortDeliveriesOf(ls.line) = <<ls.call>>

\* the streams made of a garbage prefix and a complete valid frame
GarbageStreams ==
    { [stream |-> prefix \o SampleFrame(1),
       call |-> [kind |-> "long", data |-> SampleFrame(1), crc |-> "None"]] :
        prefix \in GarbagePrefixes }

\* every byte of the stream that the assembler can read has been read, in
\* calls that never gave up waiting for a payload
StreamRead ==
    /\ fr_wire = <<>>
    /\ Len(fr_rx) < 4
    /\ fr_pc = "idle"
    /\ AbandonedCalls = {}

\* C14: for every garbage prefix ahead of a complete valid long frame, the
\* 55 AA of the frame is recognised as a frame start and the frame is
\* delivered, and no call of the assembler ends with an exception.
C14_Resynchronizes ==
    \A gs \in GarbageStreams :
        (fr_stream = gs.stream /\ StreamRead) =>
            /\ LongFrames(fr_delivered) = <<gs.call>>
            /\ \A i \in 1..Len(fr_log) : fr_log[i].ret \in {"True", "False"}

\* C15: a set_switch request for float_charge, heating or display made while
\* no settings are stored for the sampler adds nothing to the command queue
\* and writes nothing to the transport.
C15_RejectedLocally ==
    [][ (sw_req' # sw_req /\ sw_req'.switch \in MultiFlagSwitches
                          /\ ~sw_req'.present) =>
            /\ ms_queue' = ms_queue
            /\ ms_last' = ms_last
            /\ ms_outstanding' = ms_outstanding ]_vars

C15_Witness ==
    /\ sw_req.switch \in MultiFlagSwitches
    /\ ~sw_req.present
    /\ sw_cmd = AttributeError
    /\ ms_queue = <<>>
    /\ ms_last.src = "poll"
    /\ ms_phase = "wait"

\* C16: the multi-flag merge is idempotent: a command enabling a switch whose
\* bit is set in the current register value carries the current value, and
\* the disable merge applied to the value a disable command carries yields
\* that value again.
C16_MergeIdempotent ==
    (sw_req.switch \in MultiFlagSwitches /\ sw_req.present) =>
        LET f == FlagBit(sw_req.switch)
            v == RegisterOf(sw_cmd.val)
        IN  /\ sw_cmd.tag = "bytes"
            /\ (sw_req.state /\ BitAnd(sw_req.current, f) = f) => v = sw_req.current
            /\ ~sw_req.state => merge_11(f, FALSE, v) = v

C16_Witness ==
    /\ sw_req.switch = "display" /\ sw_req.present /\ ~sw_req.state
    /\ sw_req.current = 81 + 256 * 50
    /\ RegisterOf(sw_cmd.val) = merge_11(display_flag, FALSE, sw_req.current)
    /\ RegisterOf(sw_cmd.val) # sw_req.current

\* the register written for each single-register switch
SingleRegister ==
    [charge |-> 112, discharge |-> 116, balance |-> 120]

\* C17: for charge, discharge and balance the command is the ten bytes
\* 10 10 <reg> 00 02 04 00 00 00 <state> with reg 0x70, 0x74, 0x78 and state
\* 01 for on, 00 for off, whether settings are stored or not; an unknown
\* switch name yields no command.
C17_FixedCommands ==
    /\ sw_req.switch \in DOMAIN SingleRegister =>
          sw_cmd = [tag |-> "bytes",
                    val |-> <<16, 16, SingleRegister[sw_req.switch], 0, 2, 4,
                              0, 0, 0, IF sw_req.state THEN 1 ELSE 0>>]
    /\ sw_req.switch = "unknown" => sw_cmd = [tag |-> "None", val |-> <<>>]

C17_Witness ==
    /\ sw_req.switch = "balance" /\ sw_req.state /\ ~sw_req.present
    /\ sw_cmd.val = <<16, 16, 120, 0, 2, 4, 0, 0, 0, 1>>

\* C18: generate_cmd(command, address) is the address, the command and the
\* two bytes of the CRC-16/Modbus of address + command, low byte first; the
\* CRC of all but its last two bytes equals its last two bytes, and the CRC of
\* the whole message is 0.
C18_CommandRoundTrip ==
    gc_msg # <<>> =>
        LET body == <<gc_address>> \o gc_command
            crc  == crc16_modbus(body)
        IN  /\ gc_msg = body \o <<crc % 256, crc \div 256>>
            /\ crc16_modbus2(DropLast(gc_msg, 2)) = TakeLast(gc_msg, 2)
            /\ crc16_modbus(gc_msg) = 0

C18_Witness ==
    /\ gc_command = command_status
    /\ gc_address = 1
    /\ gc_msg = <<1, 16, 22, 32, 0, 1, 2, 0, 0, 214, 241>>

\* C19: no command is written to the transport once the shutdown flag is
\* set, by the polls of the master loop or by the loop that drains the queue.
C19_NoWriteAfterShutdown ==
    /\ ~ms_last.shutdown
    /\ ~ms_prev.shutdown

\* C20: an exchange whose response fails (framing error, checksum or CRC
\* mismatch) or whose handling raises (a decode failure in the callback) does
\* not end the master loop; the loop ends only by watchdog exhaustion or
\* shutdown.
C20_LoopSurvivesFailure ==
    /\ ms_result \in {"running", "watchdog", "shutdown"}
    /\ (ms_ev.kind \in PollKinds /\ ms_ev.outcome \in {"fail", "raise"}
            /\ ms_counter = ms_ev.after /\ ~ms_shutdown) =>
          ms_pc # "done"

\* C21: the commands written from the queue and those still waiting are, in
\* this order, the commands handed to send_cmd_in_queue in the order of the
\* calls (each is written at most once, in call order); send_cmd_in_queue can
\* be called in every state; and unless the loop ends every command handed in
\* is eventually written.
C21_QueueOrder ==
    /\ [](qu_enq = qu_sent \o qu_queue)
    /\ [](Len(qu_enq) < MaxEnqueued =>
            \A cmd \in QuCommands, address \in 1..count_bat :
                ENABLED QuPut(cmd, address))
    /\ <>[](qu_pc = "done" \/ qu_sent = qu_enq)

C21_Witness ==
    /\ Len(qu_sent) = 2
    /\ qu_sent[1] # qu_sent[2]
    /\ qu_queue # <<>>
    /\ qu_pc = "exchange"
    /\ qu_enq = qu_sent \o qu_queue

-----------------------------------------------------------------------------
\* Properties of mon_callback

\* the discriminant of a buffer: the byte at offset 4 of a buffer of at least
\* 300 bytes, -1 for a shorter buffer
Discriminant(data) == IF Len(data) >= 300 THEN At(data, 4) ELSE -1

\* C22: after every call of mon_callback, discriminant 1 ran the Settings
\* decoder, 2 the Sample decoder and 3 the DeviceInfo decoder, each changing at
\* most the sampler registered for the decoded address; any other
\* discriminant, and any buffer shorter than 300 bytes, ran no decoder, left
\* every sampler as it was and raised nothing
C22_RecordKind ==
    mc_calls > 0 =>
        LET d == Discriminant(mc_data)
        IN  /\ d = 1 =>
                /\ mc_kind = "s_decode_O1" /\ mc_raised = ""
                /\ \A a \in DOMAIN mc_samplers :
                      IF a = At(mc_data, 270)
                      THEN /\ mc_samplers[a].setting.present
                           /\ mc_samplers[a].setting.status_282 = u16(mc_data, 282)
                           /\ mc_samplers[a].queue = mc_before[a].queue
                           /\ mc_samplers[a].device_info = mc_before[a].device_info
                      ELSE mc_samplers[a] = mc_before[a]
            /\ d = 2 =>
                /\ mc_kind = "s_decode_sample" /\ mc_raised = ""
                /\ \A a \in DOMAIN mc_samplers :
                      IF Len(mc_data) > 300 /\ a = At(mc_data, 300)
                      THEN /\ Len(mc_samplers[a].queue) = Len(mc_before[a].queue) + 1
                           /\ SubSeq(mc_samplers[a].queue, 1, Len(mc_before[a].queue))
                                = mc_before[a].queue
                           /\ mc_samplers[a].setting = mc_before[a].setting
                           /\ mc_samplers[a].device_info = mc_before[a].device_info
                      ELSE mc_samplers[a] = mc_before[a]
            /\ d = 3 =>
                /\ mc_kind = "decode_info"
                /\ \A a \in DOMAIN mc_samplers :
                      /\ mc_samplers[a].setting = mc_before[a].setting
                      /\ mc_samplers[a].queue = mc_before[a].queue
                      /\ mc_samplers[a].device_info # mc_before[a].device_info
                            => /\ mc_raised = ""
                               /\ Len(mc_data) > 300 /\ a = At(mc_data, 300)
            /\ d \notin {1, 2, 3} =>
                /\ mc_kind = "none" /\ mc_raised = ""
                /\ mc_samplers = mc_before

\* a sample was queued on a sampler that holds a setting and a device info,
\* after a short buffer carrying discriminant 2 was ignored
C22_Witness ==
    /\ mc_calls = MaxCallbacks
    /\ Len(mc_data) = 299 /\ At(mc_data, 4) = 2
    /\ mc_kind = "none" /\ mc_samplers = mc_before
    /\ mc_samplers[1].setting.present
    /\ mc_samplers[1].device_info.present

-----------------------------------------------------------------------------
\* Properties of the sample decoder

\* the frame has been decoded in both layouts
DecodedBoth == sd_new # <<>> /\ sd_old # <<>>

\* C23: the two layouts return temperature lists whose lengths differ by 3;
\* the first two battery temperatures are read at 130 and 132 in the old
\* layout and 32 bytes further in the new one, the three further ones of the
\* new layout at 254, 256 and 258; the MOSFET temperature is read at 134 in
\* the old layout and at 144 in the new one, 10 bytes further
C23_Offsets ==
    DecodedBoth =>
        /\ Len(sd_new[1].temperatures) = Len(sd_old[1].temperatures) + 3
        /\ Len(sd_old[1].temperatures) = 2
        /\ \A k \in 1..2 :
              /\ sd_old[1].temperatures[k] = temp(i16(sd_buf, 130 + 2 * (k - 1)))
              /\ sd_new[1].temperatures[k] = temp(i16(sd_buf, 130 + 32 + 2 * (k - 1)))
        /\ \A k \in 3..5 :
              sd_new[1].temperatures[k] = temp(i16(sd_buf, 254 + 2 * (k - 3)))
        /\ sd_old[1].mos_temperature = i16(sd_buf, 134)
        /\ sd_new[1].mos_temperature = i16(sd_buf, 134 + 10)

\* the frame of distinct fields has been decoded in both layouts
C23_Witness ==
    /\ DecodedBoth
    /\ sd_buf = RampFrame
    /\ sd_old[1].mos_temperature = 67 /\ sd_new[1].mos_temperature = 72
    /\ sd_old[1].temperatures = <<65, 66>>
    /\ sd_new[1].temperatures = <<81, 82, 127, 128, 129>>

\* C23 as stated: the MOSFET temperature of the new layout is the field 32
\* bytes after the one the old layout reads, like the battery temperatures
C23_SameShift ==
    DecodedBoth =>
        /\ Len(sd_new[1].temperatures) = Len(sd_old[1].temperatures) + 3
        /\ \E o \in 0..266 :
              /\ sd_old[1].temperatures[1] = temp(i16(sd_buf, o))
              /\ sd_new[1].temperatures[1] = temp(i16(sd_buf, o + 32))
        /\ \E o \in 0..266 :
              /\ sd_old[1].mos_temperature = i16(sd_buf, o)
              /\ sd_new[1].mos_temperature = i16(sd_buf, o + 32)

-----------------------------------------------------------------------------
\* Properties of the settings decoder

\* the four bytes at offset i are not all zero
RawNonzero(buf, i) == \E k \in 0..3 : At(buf, i + k) # 0

\* C24: the stored setting has charge, discharge and balance true iff the
\* 32-bit values at 118, 122 and 126 of its frame are nonzero, status_282 made
\* of the bytes at 282 (low) and 283 (high), and float_charge equal to bit 9
\* of status_282
C24_Flags ==
    sw_setting.present =>
        /\ sw_setting.charge = RawNonzero(sw_frame, 118)
        /\ sw_setting.discharge = RawNonzero(sw_frame, 122)
        /\ sw_setting.balance = RawNonzero(sw_frame, 126)
        /\ sw_setting.status_282 % 256 = At(sw_frame, 282)
        /\ sw_setting.status_282 \div 256 = At(sw_frame, 283)
        /\ sw_setting.float_charge = ((sw_setting.status_282 \div 512) % 2 = 1)

\* a setting whose charge enable is nonzero in its third byte only, whose
\* discharge enable is zero, and whose register has every bit of its high
\* byte set but bit 9
C24_Witness ==
    /\ sw_setting.present
    /\ sw_setting.charge /\ At(sw_frame, 118) = 0 /\ At(sw_frame, 120) = 128
    /\ ~sw_setting.discharge
    /\ sw_setting.balance
    /\ ~sw_setting.float_charge /\ sw_setting.status_282 = 253 * 256

\* C25: every sample decoded from a frame whose capacity and remaining charge
\* are positive has a state of charge between 0 and 100 percent (soc is kept
\* in hundredths of a percent)
C25_SocBounded ==
    \A sample \in {sd_new[k] : k \in DOMAIN sd_new}
                    \cup {sd_old[k] : k \in DOMAIN sd_old} :
        sample.derived => sample.soc >= 0 /\ sample.soc <= 100 * 100

-----------------------------------------------------------------------------
\* Properties of PeriodicBoolSignal

\* the whole periods elapsed since the recorded tick when the last call was made
PeriodsElapsed == (ps_before.now - ps_before.last_t) \div ps_period

\* C26: no call of sleep() or set_time() decreases the counter, and a call
\* made when k >= 1 whole periods have elapsed since the recorded tick adds k
\* to the counter and leaves the recorded tick less than one period before
\* the time of the call
C26_CountsPeriods ==
    ps_before.op # "none" =>
        /\ ps_counter >= ps_before.counter
        /\ PeriodsElapsed >= 1 =>
              /\ ps_counter = ps_before.counter + PeriodsElapsed
              /\ ps_last_t <= ps_before.now
              /\ ps_before.now - ps_last_t < ps_period

\* C27: in the test loop every call of set_time() leaves the state true iff
\* it found a period elapsed, and then the counter one higher, otherwise
\* unchanged; the counter is the number of periods elapsed at the last call;
\* the loop ends, with the counter above 10
C27_TestTerminates ==
    /\ [](ps_before.op = "set_time" /\ ps_pc \in {"test", "sleep", "done"} =>
            LET elapsed == ps_before.now - ps_before.last_t >= ps_period
            IN  /\ ps_state = elapsed
                /\ ps_counter = ps_before.counter + (IF elapsed THEN 1 ELSE 0))
    /\ [](ps_counter = ps_before.now \div ps_period)
    /\ [](ps_pc = "done" => ps_counter > test_limit)
    /\ <>(ps_pc = "done")

\* the test as written (a call every 5 seconds) has ended: 22 calls, the
\* signal found true 12 times
C27_Witness ==
    /\ ps_pc = "done"
    /\ ps_interval = test_sleep
    /\ ps_counter = test_limit + 1
    /\ ps_calls = 22
    /\ ps_logged = 12

\* C28: every Protection field of a decoded sample is OK, WARNING or ALARM
C28_ProtectionLevels ==
    \A sample \in {sd_new[k] : k \in DOMAIN sd_new}
                    \cup {sd_old[k] : k \in DOMAIN sd_old} :
        \A field \in DOMAIN sample.protection :
            sample.protection[field] \in {OK, WARNING, ALARM}

-----------------------------------------------------------------------------
\* Properties of the BLE checksum

\* C29: the checksum of a concatenation is the sum of the two checksums
\* modulo 256, and every checksum is in 0..255
C29_Additive ==
    cc_crc # <<>> =>
        /\ cc_crc[3] = (cc_crc[1] + cc_crc[2]) % 256
        /\ \A k \in 1..3 : cc_crc[k] \in 0..255

\* two strings whose byte sums and whose checksums both add up to more than 255
C29_Witness ==
    /\ cc_crc # <<>>
    /\ cc_a = <<255, 255>> /\ cc_b = <<128, 127>>
    /\ cc_crc = <<254, 255, 253>>

-----------------------------------------------------------------------------
\* Properties of concurrent switch requests

\* the register value v has the flag of the switch as the request asked
FlagAsRequested(v, request) ==
    (BitAnd(v, FlagBit(request.switch)) # 0) = request.state

\* C30: when two queued requests for different multi-flag switches were made
\* with no settings record stored between them, and both commands have been
\* written, the register value written last has both flags as requested
C30_NoLostChange ==
    (/\ Len(rq_requests) = 2
     /\ \A k \in 1..2 : /\ rq_requests[k].switch \in MultiFlagSwitches
                         /\ rq_requests[k].queued
     /\ rq_requests[1].switch # rq_requests[2].switch
     /\ rq_requests[1].stores = rq_requests[2].stores
     /\ Len(qu_sent) = 2)
    => /\ FlagAsRequested(RegisterOf(qu_sent[2][1]), rq_requests[1])
       /\ FlagAsRequested(RegisterOf(qu_sent[2][1]), rq_requests[2])

-----------------------------------------------------------------------------
\* Properties of the master loop after shutdown

\* the end of the cycle under way is within the bounds of the model
CycleCanEnd ==
    /\ ms_cycle < StopCycles
    /\ \E d \in CycleSeconds : sleep_behind(ms_behind + d) <= MaxBehind

-----------------------------------------------------------------------------
\* Properties of the calls of read_trame_55_aa

\* C32: every call of read_trame_55_aa that ends returns True or False (it
\* raises nothing), True only with the payload complete, and the wait for
\* the payload never outlasts 20 consecutive empty polls.
C32_CallReturns ==
    /\ \A i \in 1..Len(fr_log) : fr_log[i].ret \in {"True", "False"}
    /\ fr_nodata <= no_data_limit

-----------------------------------------------------------------------------
\* Properties of the answer to a queued write command

\* the first 6 bytes of the written frame followed by their CRC-16/Modbus
ExpectedAnswer == Slice(ca_cmd, 0, 6) \o crc16_modbus2(Slice(ca_cmd, 0, 6))

\* the writes of the frame of the write command
WritesOfCommand == { i \in 1..Len(ca_writes) : ca_writes[i] = ca_cmd }

-----------------------------------------------------------------------------
\* Properties of the reader of the single-device mode

\* C34: the reader writes nothing but the initial command, a delivered frame
\* resets its counter, and it returns only on shutdown or when more than
\* counter_limit consecutive calls of read_trame_55_aa have failed.
C34_SingleDevice ==
    /\ sg_writes <= 1
    /\ sg_counter <= counter_limit + 1
    /\ sg_pc = "done" =>
          \/ sg_result = "watchdog" /\ sg_counter > counter_limit
          \/ sg_result = "shutdown" /\ sg_shutdown

-----------------------------------------------------------------------------
\* Properties of the routing of decoded records

\* the bus address a long frame carries: the byte at 270 of a settings frame,
\* the byte at 300 of the other kinds (0 when the buffer ends before it)
EmbeddedAddress(data) ==
    IF At(data, 4) = 1 THEN At(data, 270)
    ELSE IF Len(data) <= 300 THEN 0
    ELSE IF At(data, 300) < 128 THEN At(data, 300)
    ELSE At(data, 300) - 256

\* the sampler received the record decoded from the buffer
Received(data, before, after) ==
    CASE At(data, 4) = 1 ->
            /\ after.setting.present
            /\ after.setting.address = At(data, 270)
            /\ after.queue = before.queue /\ after.device_info = before.device_info
      [] At(data, 4) = 2 ->
            /\ Len(after.queue) = Len(before.queue) + 1
            /\ after.queue[Len(after.queue)].sample.address = EmbeddedAddress(data)
            /\ after.setting = before.setting /\ after.device_info = before.device_info
      [] OTHER ->
            /\ after.device_info.present
            /\ after.device_info.address = EmbeddedAddress(data)
            /\ after.setting = before.setting /\ after.queue = before.queue

\* C35: a record decoded from a long frame of kind 1, 2 or 3 goes to the
\* sampler registered under the address the frame carries (byte 270 of a
\* settings frame, byte 300 of a sample or device-info frame) and to no
\* other; when no sampler is registered under it, no sampler changes.
C35_RoutedByFrame ==
    (mc_calls > 0 /\ Discriminant(mc_data) \in {1, 2, 3} /\ mc_raised = "") =>
        LET a == EmbeddedAddress(mc_data)
        IN  /\ \A b \in DOMAIN mc_samplers :
                  b # a => mc_samplers[b] = mc_before[b]
            /\ a \in DOMAIN mc_samplers =>
                  Received(mc_data, mc_before[a], mc_samplers[a])
            /\ a \notin DOMAIN mc_samplers => mc_samplers = mc_before

\* a settings frame with 2 at byte 270 and 1 at byte 300 went to sampler 2
\* only, and no sampler has a sample queued
C35_Witness ==
    /\ mc_calls = 2
    /\ Len(mc_data) = length_fixed
    /\ At(mc_data, 4) = 1 /\ At(mc_data, 270) = 2 /\ At(mc_data, 300) = 1
    /\ mc_samplers[2].setting.present
    /\ ~mc_samplers[1].setting.present
    /\ mc_samplers[1].queue = <<>> /\ mc_samplers[2].queue = <<>>

-----------------------------------------------------------------------------
\* Properties of the exit of main()

\* C36: once the MQTT publish watchdog of bg_checks has tripped,
\* read_serial_data eventually returns and main() stores the meter states
\* and exits.
C36_WatchdogStopsSerial == ex_tripped ~> (ex_main = "exited")

-----------------------------------------------------------------------------
\* Properties of the switches map of a decoded setting

\* C37: the switches map of every decoded setting agrees with its enable
\* flags, entry by entry.
C37_SwitchesAgree ==
    sw_setting.present =>
        /\ sw_setting.switches.charge = sw_setting.charge
        /\ sw_setting.switches.discharge = sw_setting.discharge
        /\ sw_setting.switches.balance = sw_setting.balance
        /\ sw_setting.switches.float_charge = sw_setting.float_charge

-----------------------------------------------------------------------------
\* Properties of the settings frame cached by JKBt

-----------------------------------------------------------------------------
\* Properties of the temperature statistics

\* the MOSFET temperature of a decoded sample as the float the code holds
MosFloat(sample) == int_truediv(sample.mos_temperature, 10)

\* the sensor readings of a decoded sample that are not the -2000 sentinel,
\* as floats
SensorFloats(sample) ==
    LET present == SelectSeq(sample.temperatures, LAMBDA t : t # NaN)
    IN  [k \in 1..Len(present) |-> int_truediv(present[k], 10)]

\* minimum, maximum and count over the MOSFET temperature and the sensors
\* that are present
PresentStatistics(sample) ==
    temperature_loop(SensorFloats(sample), 1,
        [temp_min |-> MosFloat(sample), temp_max |-> MosFloat(sample),
         temp_somme |-> MosFloat(sample), temp_count |-> 1])

StatisticsOrdered(sample) ==
    /\ float_le(sample.temp_min, sample.temp_moyenne)
    /\ float_le(sample.temp_moyenne, sample.temp_max)
    /\ float_le(sample.temp_min, MosFloat(sample))
    /\ float_le(MosFloat(sample), sample.temp_max)
    /\ sample.temp_min = PresentStatistics(sample).temp_min
    /\ sample.temp_max = PresentStatistics(sample).temp_max
    /\ sample.temp_moyenne
            = float_truediv(PresentStatistics(sample).temp_somme,
                            PresentStatistics(sample).temp_count)

\* C39: in every decoded sample temp_min <= temp_moyenne <= temp_max and
\* temp_min <= mos_temperature <= temp_max, and minimum, mean and maximum are
\* those of the MOSFET temperature and the sensors that do not read -2000
C39_StatisticsOrdered ==
    /\ \A i \in 1..Len(sd_new) : StatisticsOrdered(sd_new[i])
    /\ \A i \in 1..Len(sd_old) : StatisticsOrdered(sd_old[i])

-----------------------------------------------------------------------------
\* Properties of the short-frame accumulator

\* C40: cmd_line never holds more than 11 bytes, and it is empty once a
\* 55 AA header has been recognised
C40_CmdLineBounded ==
    /\ Len(fr_cmd_line) <= 11
    /\ fr_pc = "payload" => fr_cmd_line = <<>>

\* a header is recognised after two 11-byte lines: the first was handed over
\* when the twelfth byte arrived, the second when the header was read
C40_Witness ==
    /\ fr_pc = "payload"
    /\ fr_cmd_line = <<>>
    /\ Len(fr_delivered) = 2
    /\ fr_delivered[1].kind = "short"
    /\ fr_delivered[2].kind = "short"
    /\ Len(fr_delivered[2].data) = 11

====
